---- MODULE Spec2Model ----
(***************************************************************************)
(* Verification model of the pandiver PDF statement parser.                *)
(*                                                                         *)
(*   - row clustering (backend/app/pdf_processor: cluster_words_into_rows) *)
(*   - the multi-page word/row pipeline (extract_all_words,                *)
(*     get_all_page_rows)                                                  *)
(*   - the bank-statement parser page of the frontend                      *)
(*                                                                         *)
(* Lengths are kept integral: vertical midpoints are carried doubled       *)
(* (mid_y2 = y0 + y1 = 2 * mid_y) and tolerances likewise.                 *)
(***************************************************************************)
EXTENDS Integers, Sequences, FiniteSets, Bags, TLC

VARIABLES
  op,            \* label of the last operation that ran
  \* ---- row clustering -------------------------------------------------
  clWords,       \* argument `words` of cluster_words_into_rows
  clTol2,        \* argument `tolerance`, doubled
  clRows,        \* returned rows
  clPc,          \* "ready" | "done"
  \* ---- multi-page word / row pipeline (one document per request) ------
  ppPages,            \* the pages of the PDF: what pdfplumber/OCR do on each
  ppDocOk,            \* the file opens and parses as a PDF
  DOCTR_AVAILABLE,    \* module flag: docTR imported
  PDF2IMAGE_AVAILABLE,\* module flag: pdf2image imported
  ppPc,               \* "idle" | "start" | "analyzed" | "loop" | "words" | "rows" | "done" | "raised"
  page_analysis,      \* analyze_pdf_pages result: is_digital per page
  images,             \* convert_pdf_to_images result: number of page images
  ppIdx,              \* page_num of the extraction loop
  all_words,          \* pages whose words were appended, in order
  all_rows,           \* pages that have their rows (keys of all_rows)
  ppOutcome,          \* what inference returned: "none" until it ran
  ppAggregated,       \* cross-page summary has been computed
  ppRequests,         \* user requests issued so far
  \* ---- bank-statement parser page (frontend) ---------------------------
  pdfFile,            \* a PDF has been chosen
  filePages,          \* the pages of the chosen PDF (0 while none is chosen)
  numPages,
  currentPage,
  pageDims,           \* None until the page has loaded
  pageScale10,        \* pageScale in tenths (1.0 = 10)
  isSelecting,
  selectionStart,     \* None or a point, in page points * PtUnit
  selectionEnd,
  selectedRect,       \* None or [x, y, width, height]
  extractedText,      \* None or a string
  extractedTableData, \* None or [headers, data, page_summaries]
  showPreview,
  error,
  isLoading,
  inflight,           \* None or the request the page is waiting for
  tableHeaders,
  tableRows,
  savedTables,
  csvContent,         \* None or the content of the file handleExportCSV downloaded
  isSmartMode,
  smartExtractionResult,
  isColumnMode,
  textSpans,
  spansInflight,      \* pages whose /get-text-spans request is not answered yet
  columns,
  columnStartPage,
  columnEndPage,
  multiPageMode,
  \* ---- DataTable component (smart PDF parser page) ----------------------
  dtRows,             \* state `rows`: a row is [id, cells], a cell its content
  columnHeaders,
  showChoiceDialog,
  pendingPlacement,   \* None or [blocks, targetRowId, columnIndex]
  dropTimeout,        \* None or the placement the pending setTimeout will open
  parentData,         \* None or the data last passed to onDataChange
  parentHeaders,      \* the headers last passed to onHeadersChange
  \* ---- InteractivePDFViewer component (smart PDF parser page) -----------
  vwCurrentPage,      \* state `currentPage` of the viewer
  selectedBlocks,     \* set of indexes into the blocks of the page shown
  selectionMode,
  vwIsSelecting,      \* a selection rectangle is being drawn
  userSelected        \* the <<page, index>> the user has selected and not cleared

clVars == <<clWords, clTol2, clRows, clPc>>
ppVars == <<ppPages, ppDocOk, DOCTR_AVAILABLE, PDF2IMAGE_AVAILABLE, ppPc, page_analysis,
            images, ppIdx, all_words, all_rows, ppOutcome, ppAggregated, ppRequests>>
selVars == <<pageDims, pageScale10, isSelecting, selectionStart, selectionEnd, selectedRect>>
exVars == <<extractedText, extractedTableData, showPreview, error, isLoading, inflight>>
docVars == <<pdfFile, filePages, numPages, currentPage>>
tabVars == <<tableHeaders, tableRows, savedTables>>
smVars == <<isSmartMode, smartExtractionResult>>
colVars == <<isColumnMode, textSpans, spansInflight, columns, columnStartPage, columnEndPage, multiPageMode>>
uiVars == <<docVars, selVars, exVars, tabVars, smVars, colVars>>
dtVars == <<dtRows, columnHeaders, showChoiceDialog, pendingPlacement, dropTimeout,
            parentData, parentHeaders>>
vwVars == <<vwCurrentPage, selectedBlocks, selectionMode, vwIsSelecting, userSelected>>
vars == <<op, clVars, ppVars, uiVars, dtVars, vwVars, csvContent>>

(***************************************************************************)
(* Generic helpers                                                         *)
(***************************************************************************)
None == <<>>
Some(v) == <<v>>

Abs(n) == IF n < 0 THEN -n ELSE n
Max2(a, b) == IF a >= b THEN a ELSE b
Min2(a, b) == IF a <= b THEN a ELSE b

SeqToBag(s) == [e \in {s[i] : i \in DOMAIN s} |-> Cardinality({i \in DOMAIN s : s[i] = e})]

RECURSIVE Flatten(_)
Flatten(ss) == IF ss = <<>> THEN <<>> ELSE Head(ss) \o Flatten(Tail(ss))

RECURSIVE SumSeq(_)
SumSeq(s) == IF s = <<>> THEN 0 ELSE Head(s) + SumSeq(Tail(s))

\* Python's list.sort(key=...) / JS-independent stable sort: element i goes to
\* the position given by the number of elements that order before it.
SortRank(keys, i) ==
  1 + Cardinality({j \in DOMAIN keys : keys[j] < keys[i] \/ (keys[j] = keys[i] /\ j < i)})

StableSort(s, keys) ==
  [r \in 1..Len(s) |-> s[CHOOSE i \in 1..Len(s) : SortRank(keys, i) = r]]

(***************************************************************************)
(* Row clustering: cluster_words_into_rows(words, tolerance)               *)
(***************************************************************************)
\* mid_y = (word.get('y0', 0) + word.get('y1', 0)) / 2, carried doubled
mid_y2(word) == word.y0 + word.y1

\* words_with_midy.append({**word, 'mid_y': mid_y})
WithMidY(word) ==
  [f \in (DOMAIN word) \cup {"mid_y2"} |-> IF f = "mid_y2" THEN mid_y2(word) ELSE word[f]]

\* the word as it was passed in (the 'mid_y' key removed)
StripMidY(w) == [f \in (DOMAIN w) \ {"mid_y2"} |-> w[f]]

words_with_midy(words) ==
  LET ws == [i \in DOMAIN words |-> WithMidY(words[i])]
  IN  StableSort(ws, [i \in DOMAIN ws |-> ws[i].mid_y2])

\* current_row.sort(key=lambda w: w.get('x0', 0))
SortRowByX0(row) == StableSort(row, [i \in DOMAIN row |-> row[i].x0])

\* rows.sort(key=lambda row: row[0]['mid_y'] if row else 0)
SortRows(rows) ==
  StableSort(rows, [i \in DOMAIN rows |-> IF rows[i] # <<>> THEN rows[i][1].mid_y2 ELSE 0])

\* current_row_y is None, or a rational num/den of doubled midpoints
RowYFirst(word_y) == Some([num |-> word_y, den |-> 1])
\* mutant: the row keeps the mid_y of its first word instead of the average
RowYAverage_FirstWord(current_row) ==
  Some([num |-> current_row[1].mid_y2, den |-> 1])

\* sum(w['mid_y'] for w in current_row) / len(current_row)
RowYAverage(current_row) ==
  Some([num |-> SumSeq([i \in DOMAIN current_row |-> current_row[i].mid_y2]),
        den |-> Len(current_row)])

\* abs(word_y - current_row_y) <= tolerance
WithinTolerance(word_y, current_row_y, tol2) ==
  LET y == current_row_y[1]
  IN  Abs(word_y * y.den - y.num) <= tol2 * y.den

\* mutant: a row of a single word is not emitted
CloseRow_DropsSingle(rows, current_row) ==
  IF Len(current_row) > 1 THEN Append(rows, SortRowByX0(current_row)) ELSE rows

\* if current_row: current_row.sort(key=x0); rows.append(current_row)
CloseRow(rows, current_row) ==
  IF current_row # <<>> THEN Append(rows, SortRowByX0(current_row)) ELSE rows

RECURSIVE ClusterLoop(_, _, _, _, _, _)
ClusterLoop(ws, i, rows, current_row, current_row_y, tol2) ==
  IF i > Len(ws)
  THEN CloseRow(rows, current_row)
  ELSE
    LET word == ws[i]
        word_y == word.mid_y2
    IN  IF current_row_y = None \/ WithinTolerance(word_y, current_row_y, tol2)
        THEN LET row2 == Append(current_row, word)
             IN  ClusterLoop(ws, i + 1, rows, row2,
                             IF current_row_y = None THEN RowYFirst(word_y) ELSE RowYAverage(row2),
                             tol2)
        ELSE ClusterLoop(ws, i + 1, CloseRow(rows, current_row),
                         <<word>>, RowYFirst(word_y), tol2)

cluster_words_into_rows(words, tol2) ==
  IF words = <<>> THEN <<>>
  ELSE SortRows(ClusterLoop(words_with_midy(words), 1, <<>>, <<>>, None, tol2))

(***************************************************************************)
(* Inputs of the clustering specification                                  *)
(***************************************************************************)
MaxWords == 3

WordMk(t, x, ya, yb) == [text |-> t, x0 |-> x, y0 |-> ya, x1 |-> x + 20, y1 |-> yb, page |-> 1]

\* midpoints 10, 12, 13 and 20 points; one box of zero height and a taller box
\* around the same midpoint
WordUniverse ==
  {WordMk("w", x, y[1], y[2]) : x \in {0, 50},
                                y \in {<<10, 10>>, <<9, 11>>, <<11, 13>>, <<12, 14>>, <<19, 21>>}}

\* tolerance 0, 1.5 and the default 2.0, doubled
Tolerances2 == {0, 3, 4}
DefaultTolerance2 == 4

SeqsUpTo(S, n) == UNION {[1..k -> S] : k \in 0..n}

\* the two-column statement page of the scenario, in reading order and shuffled
ScenarioInputs ==
  LET ScnDate == WordMk("Date", 0, 100, 110)
      ScnAmount == WordMk("Amount", 50, 100, 110)
      ScnD1 == WordMk("2024-01-01", 0, 115, 125)
      ScnA1 == WordMk("100.00", 50, 115, 125)
      ScnD2 == WordMk("2024-01-02", 0, 130, 140)
      ScnA2 == WordMk("-50.00", 50, 130, 140)
  IN  { <<ScnDate, ScnAmount, ScnD1, ScnA1, ScnD2, ScnA2>>,
        <<ScnA2, ScnD2, ScnA1, ScnD1, ScnAmount, ScnDate>>,
        <<ScnAmount, ScnD2, ScnDate, ScnA1, ScnA2, ScnD1>> }

ClusterInputs == SeqsUpTo(WordUniverse, MaxWords) \cup ScenarioInputs

ClInit ==
  /\ clWords \in ClusterInputs
  /\ clTol2 \in Tolerances2
  /\ clRows = <<>>
  /\ clPc = "ready"

\* the clustering variables of a specification that does not use them
ClIdle ==
  /\ clWords = <<>>
  /\ clTol2 = DefaultTolerance2
  /\ clRows = <<>>
  /\ clPc = "ready"

\* the pipeline variables of a specification that does not use them
PpIdle ==
  /\ ppPages = <<>>
  /\ ppDocOk = TRUE
  /\ DOCTR_AVAILABLE = TRUE
  /\ PDF2IMAGE_AVAILABLE = TRUE
  /\ ppPc = "idle"
  /\ page_analysis = <<>>
  /\ images = 0
  /\ ppIdx = 0
  /\ all_words = <<>>
  /\ all_rows = {}
  /\ ppOutcome = "none"
  /\ ppAggregated = FALSE
  /\ ppRequests = 0

\* the DataTable as first rendered (the useState initial values), before its
\* effects have run
DtIdle ==
  /\ dtRows = <<>>
  /\ columnHeaders = <<>>
  /\ showChoiceDialog = FALSE
  /\ pendingPlacement = None
  /\ dropTimeout = None
  /\ parentData = None
  /\ parentHeaders = <<>>

\* the InteractivePDFViewer as first rendered (the useState initial values)
VwIdle ==
  /\ vwCurrentPage = 1
  /\ selectedBlocks = {}
  /\ selectionMode = FALSE
  /\ vwIsSelecting = FALSE
  /\ userSelected = {}

\* the page as first rendered (the useState initial values)
UiInit ==
  /\ pdfFile = FALSE
  /\ filePages = 0
  /\ csvContent = None
  /\ numPages = 0
  /\ currentPage = 1
  /\ tableHeaders = <<>>
  /\ tableRows = <<>>
  /\ savedTables = <<>>
  /\ textSpans = <<>>
  /\ spansInflight = {}
  /\ isSmartMode = FALSE
  /\ smartExtractionResult = None
  /\ isColumnMode = FALSE
  /\ columns = <<>>
  /\ columnStartPage = 1
  /\ columnEndPage = 1
  /\ multiPageMode = FALSE
  /\ pageDims = None
  /\ pageScale10 = 10
  /\ isSelecting = FALSE
  /\ selectionStart = None
  /\ selectionEnd = None
  /\ selectedRect = None
  /\ extractedText = None
  /\ extractedTableData = None
  /\ showPreview = FALSE
  /\ error = ""
  /\ isLoading = FALSE
  /\ inflight = None

InitCluster ==
  /\ op = "init"
  /\ ClInit
  /\ PpIdle
  /\ UiInit
  /\ DtIdle
  /\ VwIdle

ClusterCall ==
  /\ clPc = "ready"
  /\ clRows' = cluster_words_into_rows(clWords, clTol2)
  /\ clPc' = "done"
  /\ op' = "cluster_words_into_rows"
  /\ UNCHANGED <<clWords, clTol2, ppVars, uiVars, dtVars, vwVars, csvContent>>

NextCluster == ClusterCall

SpecCluster == InitCluster /\ [][NextCluster]_vars

(***************************************************************************)
(* Row clustering properties                                               *)
(***************************************************************************)
RowMids(row) == [i \in DOMAIN row |-> row[i].mid_y2]
\* the words of a row in the order the walk met them
WalkOrder(row) == StableSort(row, RowMids(row))
MinMid(row) == WalkOrder(row)[1].mid_y2
MaxMid(row) == WalkOrder(row)[Len(row)].mid_y2

\* C5: row clustering partitions its input: the words of all output rows,
\* counted with multiplicity, are exactly the input words, so every input
\* word is in exactly one row and no row holds a word that was not given.
C5_RowPartition ==
  clPc = "done" =>
    LET out == Flatten(clRows)
    IN  SeqToBag([i \in DOMAIN out |-> StripMidY(out[i])]) = SeqToBag(clWords)

C5_Witness ==
  /\ clPc = "done"
  /\ Len(clWords) = 3
  /\ Len(clRows) = 2

\* a word joined its row within tolerance of the average of the words before it
JoinedByAverage(row, tol2) ==
  LET w == WalkOrder(row)
  IN  \A k \in 2..Len(w) :
        Abs(w[k].mid_y2 * (k - 1) - SumSeq(SubSeq(RowMids(w), 1, k - 1))) <= tol2 * (k - 1)

\* the first word of the next row is further than tolerance from the average
\* of the whole previous row
SplitByAverage(prev, next, tol2) ==
  Abs(MinMid(next) * Len(prev) - SumSeq(RowMids(prev))) > tol2 * Len(prev)

ScenarioRows ==
  << <<"Date", "Amount">>, <<"2024-01-01", "100.00">>, <<"2024-01-02", "-50.00">> >>

\* C6: rows are built walking the words by ascending mid_y; a word opens a
\* new row exactly when it is more than tolerance away from the running
\* average of the current row, otherwise it joins; each row is sorted by x0;
\* the three-line, two-column page at tolerance 2.0 gives 3 rows of 2 words.
C6_RunningAverageRows ==
  clPc = "done" =>
    /\ \A a \in DOMAIN clRows :
          /\ clRows[a] # <<>>
          /\ JoinedByAverage(clRows[a], clTol2)
          /\ \A i, j \in DOMAIN clRows[a] : i < j => clRows[a][i].x0 <= clRows[a][j].x0
    /\ \A a \in DOMAIN clRows :
          a < Len(clRows) =>
            /\ MaxMid(clRows[a]) <= MinMid(clRows[a + 1])
            /\ SplitByAverage(clRows[a], clRows[a + 1], clTol2)
    /\ (clWords \in ScenarioInputs /\ clTol2 = DefaultTolerance2) =>
          [a \in DOMAIN clRows |-> [i \in DOMAIN clRows[a] |-> clRows[a][i].text]] = ScenarioRows

\* a row holding a word that is further than tolerance from the row's first
\* word: it joined because of the running average
C6_Witness ==
  /\ clPc = "done"
  /\ clTol2 = DefaultTolerance2
  /\ \E a \in DOMAIN clRows : MaxMid(clRows[a]) - MinMid(clRows[a]) > clTol2

\* C16: clustering the same words with the same tolerance gives the same rows,
\* in the same order, with the same word order inside each row, in whatever
\* order the words are supplied.
C16_ClusteringOrderIndependent ==
  clPc = "done" =>
    \A p \in {f \in [DOMAIN clWords -> DOMAIN clWords] :
                \A i, j \in DOMAIN clWords : f[i] = f[j] => i = j} :
      cluster_words_into_rows([i \in DOMAIN clWords |-> clWords[p[i]]], clTol2) = clRows

(***************************************************************************)
(* Strings                                                                 *)
(*                                                                         *)
(* A string is a sequence of one-character strings; "" is <<>>.            *)
(***************************************************************************)
NL == "\n"
IsSpace(c) == c \in {" ", NL}

RECURSIVE TrimStart(_)
TrimStart(str) ==
  IF str # <<>> /\ IsSpace(Head(str)) THEN TrimStart(Tail(str)) ELSE str

RECURSIVE TrimEnd(_)
TrimEnd(str) ==
  IF str # <<>> /\ IsSpace(str[Len(str)]) THEN TrimEnd(SubSeq(str, 1, Len(str) - 1)) ELSE str

\* String.prototype.trim
Trim(str) == TrimEnd(TrimStart(str))

(***************************************************************************)
(* Multi-page pipeline: analyze_pdf_pages, convert_pdf_to_images,          *)
(* extract_all_words, get_all_page_rows, then inference                    *)
(***************************************************************************)
MaxPages == 3
MaxRequests == 2

\* what the PDF engine does on a page:
\*   "digital"  text layer present, words extractable
\*   "scanned"  no text layer (extract_text gives the empty string), OCR finds words
\*   "blank"    text layer of white space only, OCR finds words
\*   "corrupt"  extract_text throws
\*   "badwords" extract_text works but extract_words throws
PageKinds == {"digital", "scanned", "blank", "corrupt", "badwords"}

\* page.extract_text(): it throws, or returns the text of the page's text layer
extract_text(page) ==
  CASE page \in {"digital", "badwords"} -> [throws |-> FALSE, text |-> <<" ", "a", NL>>]
    [] page = "blank" -> [throws |-> FALSE, text |-> <<" ", NL>>]
    [] page = "scanned" -> [throws |-> FALSE, text |-> <<>>]
    [] page = "corrupt" -> [throws |-> TRUE, text |-> <<>>]

\* mutant: the text is not stripped before it is tested
is_digital_page_NoStrip(page) ==
  IF extract_text(page).throws THEN FALSE ELSE extract_text(page).text # <<>>

\* try: text = page.extract_text(); return bool(text and text.strip())
\* except Exception: return False
is_digital_page(page) ==
  IF extract_text(page).throws THEN FALSE
  ELSE extract_text(page).text # <<>> /\ Trim(extract_text(page).text) # <<>>

\* the body of the page loop of extract_all_words for page_num:
\* "raise", "words" (a non-empty list was appended) or "empty"
PageWords(page_num) ==
  IF page_analysis[page_num]
  THEN \* extract_words_digital(page)
       IF ppPages[page_num] = "badwords" THEN "raise" ELSE "words"
  ELSE IF images > 0 /\ page_num <= images
       THEN \* extract_words_scanned(image, page_num)
            IF ~DOCTR_AVAILABLE THEN "raise"
            ELSE IF ppPages[page_num] \in {"scanned", "blank"} THEN "words" ELSE "empty"
       ELSE "empty"

\* mutant: a failed stage starts the request over
Raise_Retries ==
  /\ ppPc' = "start"
  /\ UNCHANGED <<ppOutcome>>

\* except Exception as e: raise Exception(f"Error ...: {str(e)}")
Raise ==
  /\ ppPc' = "raised"
  /\ UNCHANGED <<ppOutcome>>

\* page_numbers = sorted(set(word page for word in words))
page_numbers == {all_words[i] : i \in DOMAIN all_words}

\* mutant: the rows are handed on as soon as one page has its rows
AllPagesClustered_Any == all_rows # {} \/ page_numbers = {}

\* get_all_page_rows returns all_rows once its loop over page_numbers is over
AllPagesClustered == all_rows = page_numbers

PpInit ==
  /\ ppPages \in UNION {[1..n -> PageKinds] : n \in 1..MaxPages}
  /\ ppDocOk \in BOOLEAN
  /\ DOCTR_AVAILABLE \in BOOLEAN
  /\ PDF2IMAGE_AVAILABLE \in BOOLEAN
  /\ ppPc = "idle"
  /\ page_analysis = <<>>
  /\ images = 0
  /\ ppIdx = 0
  /\ all_words = <<>>
  /\ all_rows = {}
  /\ ppOutcome = "none"
  /\ ppAggregated = FALSE
  /\ ppRequests = 0

PpFixed == <<ppPages, ppDocOk, DOCTR_AVAILABLE, PDF2IMAGE_AVAILABLE>>

\* the user uploads the document and asks for an extraction
NewRequest ==
  /\ ppPc \in {"idle", "done", "raised"}
  /\ ppRequests < MaxRequests
  /\ ppRequests' = ppRequests + 1
  /\ ppPc' = "start"
  /\ page_analysis' = <<>>
  /\ images' = 0
  /\ ppIdx' = 0
  /\ all_words' = <<>>
  /\ all_rows' = {}
  /\ ppOutcome' = "none"
  /\ ppAggregated' = FALSE
  /\ op' = "NewRequest"
  /\ UNCHANGED <<PpFixed, clVars, uiVars, dtVars, vwVars, csvContent>>

\* page_analysis = analyze_pdf_pages(pdf_bytes)
AnalyzePages ==
  /\ ppPc = "start"
  /\ IF ppDocOk
     THEN /\ page_analysis' = [i \in DOMAIN ppPages |-> is_digital_page(ppPages[i])]
          /\ ppPc' = "analyzed"
          /\ UNCHANGED ppOutcome
     ELSE /\ Raise
          /\ UNCHANGED page_analysis
  /\ op' = "analyze_pdf_pages"
  /\ UNCHANGED <<PpFixed, images, ppIdx, all_words, all_rows, ppAggregated, ppRequests, clVars, uiVars, dtVars, vwVars, csvContent>>

\* if scanned_pages: images = convert_pdf_to_images(pdf_bytes)
ConvertImages ==
  /\ ppPc = "analyzed"
  /\ IF \E i \in DOMAIN page_analysis : ~page_analysis[i]
     THEN IF PDF2IMAGE_AVAILABLE
          THEN /\ images' = Len(ppPages)
               /\ ppPc' = "loop"
               /\ ppIdx' = 1
               /\ UNCHANGED ppOutcome
          ELSE /\ Raise
               /\ UNCHANGED <<images, ppIdx>>
     ELSE /\ images' = 0
          /\ ppPc' = "loop"
          /\ ppIdx' = 1
          /\ UNCHANGED ppOutcome
  /\ op' = "convert_pdf_to_images"
  /\ UNCHANGED <<PpFixed, page_analysis, all_words, all_rows, ppAggregated, ppRequests, clVars, uiVars, dtVars, vwVars, csvContent>>

\* one iteration of: for page_num, page in enumerate(pdf.pages, 1); the last
\* one returns all_words
ExtractPage ==
  /\ ppPc = "loop"
  /\ ppIdx <= Len(ppPages)
  /\ IF PageWords(ppIdx) = "raise"
     THEN /\ Raise
          /\ UNCHANGED <<ppIdx, all_words>>
     ELSE /\ all_words' = IF PageWords(ppIdx) = "words" THEN Append(all_words, ppIdx) ELSE all_words
          /\ ppIdx' = ppIdx + 1
          /\ ppPc' = IF ppIdx = Len(ppPages) THEN "words" ELSE "loop"
          /\ UNCHANGED ppOutcome
  /\ op' = "extract_all_words"
  /\ UNCHANGED <<PpFixed, page_analysis, images, all_rows, ppAggregated, ppRequests, clVars, uiVars, dtVars, vwVars, csvContent>>

\* all_rows[page_num] = get_page_rows(words, page_num, tolerance), for a page
\* that has no rows yet (pages are independent of each other)
ClusterPage ==
  /\ ppPc = "words"
  /\ \E page_num \in page_numbers \ all_rows : all_rows' = all_rows \cup {page_num}
  /\ op' = "get_page_rows"
  /\ UNCHANGED <<PpFixed, ppPc, page_analysis, images, ppIdx, all_words, ppOutcome, ppAggregated,
                 ppRequests, clVars, uiVars, dtVars, vwVars, csvContent>>

\* get_all_page_rows returns
ReturnAllPageRows ==
  /\ ppPc = "words"
  /\ AllPagesClustered
  /\ ppPc' = "rows"
  /\ op' = "get_all_page_rows"
  /\ UNCHANGED <<PpFixed, page_analysis, images, ppIdx, all_words, all_rows, ppOutcome, ppAggregated,
                 ppRequests, clVars, uiVars, dtVars, vwVars, csvContent>>

\* table / transaction inference or region extraction over the rows of all
\* pages, with the cross-page summary (date range, totals)
Infer ==
  /\ ppPc = "rows"
  /\ ppAggregated' = TRUE
  /\ ppOutcome' \in IF all_rows = {} THEN {"InferenceFailed"}
                    ELSE {"TableInferred", "RegionExtracted", "InferenceFailed"}
  /\ ppPc' = "done"
  /\ op' = "infer"
  /\ UNCHANGED <<PpFixed, page_analysis, images, ppIdx, all_words, all_rows, ppRequests, clVars, uiVars, dtVars, vwVars, csvContent>>

NextPipeline ==
  \/ NewRequest
  \/ AnalyzePages
  \/ ConvertImages
  \/ ExtractPage
  \/ ClusterPage
  \/ ReturnAllPageRows
  \/ Infer

InitPipeline ==
  /\ op = "init"
  /\ ClIdle
  /\ PpInit
  /\ UiInit
  /\ DtIdle
  /\ VwIdle

SpecPipeline == InitPipeline /\ [][NextPipeline]_vars

\* the state of the document's processing, read off the pipeline
docState ==
  CASE ppPc = "idle" -> "none"
    [] ppPc = "start" -> "Uploaded"
    [] ppPc \in {"analyzed", "loop"} -> "Classified"
    [] ppPc = "words" -> "WordsExtracted"
    [] ppPc = "rows" -> "RowsClustered"
    [] ppPc = "done" -> ppOutcome
    [] ppPc = "raised" -> "InferenceFailed"

(***************************************************************************)
(* Bank-statement parser page: lines of text                               *)
(***************************************************************************)
\* str.split('\n')
RECURSIVE SplitLines(_, _)
SplitLines(str, cur) ==
  IF str = <<>> THEN <<cur>>
  ELSE IF Head(str) = NL THEN <<cur>> \o SplitLines(Tail(str), <<>>)
  ELSE SplitLines(Tail(str), Append(cur, Head(str)))

\* .filter(Boolean) on an array of strings
RECURSIVE FilterNonEmpty(_)
FilterNonEmpty(ss) ==
  IF ss = <<>> THEN <<>>
  ELSE IF Head(ss) = <<>> THEN FilterNonEmpty(Tail(ss))
  ELSE <<Head(ss)>> \o FilterNonEmpty(Tail(ss))

\* extractedText.split('\n').map(line => line.trim()).filter(Boolean)
TextLines(str) ==
  LET ls == SplitLines(str, <<>>)
  IN  FilterNonEmpty([i \in DOMAIN ls |-> Trim(ls[i])])

(***************************************************************************)
(* Bank-statement parser page: rectangle selection                         *)
(***************************************************************************)
MaxZoomSteps == 1          \* zoom clicks away from 100% that are explored
MinScale10 == 5            \* Math.max(0.5, s - 0.1)
MaxScale10 == 20           \* Math.min(2.0, s + 0.1)
MinSelection == 10         \* width < 10 || height < 10

RECURSIVE ScaleProduct(_, _)
ScaleProduct(lo, hi) == IF lo > hi THEN 1 ELSE lo * ScaleProduct(lo + 1, hi)

\* page points are carried as integers: one point = PtUnit units, so that a
\* screen distance divided by any explored pageScale is exact
PtUnit == ScaleProduct(10 - MaxZoomSteps, 10 + MaxZoomSteps)

\* (e.clientX - rect.left) / pageScale
ToPoints(px, scale10) == (px * 10 * PtUnit) \div scale10

\* mouse positions over the overlay, in screen pixels
PxPoints == {<<0, 0>>, <<8, 30>>, <<10, 10>>, <<30, 8>>, <<30, 30>>}

PointAt(px, scale10) == [x |-> ToPoints(px[1], scale10), y |-> ToPoints(px[2], scale10)]

\* mutant: the size test compares against the threshold with && instead of ||
TooSmall_Both(width, height) ==
  width < MinSelection * PtUnit /\ height < MinSelection * PtUnit

\* width < 10 || height < 10
TooSmall(width, height) ==
  width < MinSelection * PtUnit \/ height < MinSelection * PtUnit


NumDocPages == 3           \* pages of the uploaded statement

\* handleFileUpload with a PDF file of the given number of pages
FileUploadOf(pages) ==
  /\ ~isLoading
  /\ pdfFile' = TRUE
  /\ filePages' = pages
  /\ error' = ""
  /\ op' = "handleFileUpload"
  /\ UNCHANGED <<numPages, currentPage, selVars, extractedText, extractedTableData, showPreview,
                 isLoading, inflight, tabVars, smVars, colVars, clVars, ppVars, dtVars, vwVars, csvContent>>

\* handleFileUpload with the statement
FileUpload == FileUploadOf(NumDocPages)

\* onPageLoadSuccess
PageLoadSuccess ==
  /\ pdfFile
  /\ pageDims = None
  /\ pageDims' = Some([width |-> 612, height |-> 792])
  /\ op' = "onPageLoadSuccess"
  /\ UNCHANGED <<docVars, pageScale10, isSelecting, selectionStart, selectionEnd, selectedRect,
                 exVars, tabVars, smVars, colVars, clVars, ppVars, dtVars, vwVars, csvContent>>

\* the zoom buttons: setPageScale(s => Math.max(0.5, s - 0.1)) and Math.min(2.0, s + 0.1)
Zoom ==
  /\ pdfFile
  /\ ~isLoading
  /\ \E d \in {-1, 1} :
       /\ pageScale10' = Max2(MinScale10, Min2(MaxScale10, pageScale10 + d))
       /\ Abs(pageScale10' - 10) <= MaxZoomSteps
  /\ op' = "setPageScale"
  /\ UNCHANGED <<docVars, pageDims, isSelecting, selectionStart, selectionEnd, selectedRect,
                 exVars, tabVars, smVars, colVars, clVars, ppVars, dtVars, vwVars, csvContent>>

\* the overlay takes mouse events when a PDF is shown, outside column mode,
\* and the loading overlay does not cover the page
OverlayActive == pdfFile /\ ~isColumnMode /\ ~isLoading

\* handleOverlayMouseDown
OverlayMouseDown(P) ==
  /\ OverlayActive
  /\ \E px \in P :
       /\ selectionStart' = Some(PointAt(px, pageScale10))
       /\ selectionEnd' = Some(PointAt(px, pageScale10))
  /\ isSelecting' = TRUE
  /\ selectedRect' = None
  /\ extractedText' = None
  /\ showPreview' = FALSE
  /\ op' = "handleOverlayMouseDown"
  /\ UNCHANGED <<docVars, pageDims, pageScale10, extractedTableData, error, isLoading, inflight,
                 tabVars, smVars, colVars, clVars, ppVars, dtVars, vwVars, csvContent>>

\* handleOverlayMouseMove
OverlayMouseMove(P) ==
  /\ OverlayActive
  /\ isSelecting
  /\ selectionStart # None
  /\ \E px \in P : selectionEnd' = Some(PointAt(px, pageScale10))
  /\ op' = "handleOverlayMouseMove"
  /\ UNCHANGED <<docVars, pageDims, pageScale10, isSelecting, selectionStart, selectedRect,
                 exVars, tabVars, smVars, colVars, clVars, ppVars, dtVars, vwVars, csvContent>>

SelectionWidth == Abs(selectionEnd[1].x - selectionStart[1].x)
SelectionHeight == Abs(selectionEnd[1].y - selectionStart[1].y)
SelectionComplete ==
  isSelecting /\ selectionStart # None /\ selectionEnd # None /\ pageDims # None

\* handleOverlayMouseUp, up to the fetch of /extract-text-region
OverlayMouseUp ==
  /\ OverlayActive
  /\ isSelecting' = FALSE
  /\ selectionStart' = None
  /\ selectionEnd' = None
  /\ IF ~SelectionComplete
     THEN /\ selectedRect' = None
          /\ extractedText' = None
          /\ showPreview' = FALSE
          /\ error' = "Selection was not completed. Please try again."
          /\ UNCHANGED <<isLoading, inflight>>
     ELSE IF TooSmall(SelectionWidth, SelectionHeight)
     THEN /\ selectedRect' = None
          /\ extractedText' = None
          /\ showPreview' = FALSE
          /\ error' = "Selection area is too small. Please select a larger region."
          /\ UNCHANGED <<isLoading, inflight>>
     ELSE LET rect == [x |-> Min2(selectionStart[1].x, selectionEnd[1].x),
                       y |-> Min2(selectionStart[1].y, selectionEnd[1].y),
                       width |-> SelectionWidth,
                       height |-> SelectionHeight]
          IN  /\ selectedRect' = Some(rect)
              /\ isLoading' = TRUE
              /\ error' = ""
              /\ inflight' = Some([url |-> "extract-text-region", page |-> currentPage - 1,
                                   rect |-> rect])
              /\ UNCHANGED <<extractedText, showPreview>>
  /\ op' = "handleOverlayMouseUp"
  /\ UNCHANGED <<docVars, pageDims, pageScale10, extractedTableData, tabVars, smVars, colVars,
                 clVars, ppVars, dtVars, vwVars, csvContent>>

(***************************************************************************)
(* Bank-statement parser page: the answer of /extract-text-region          *)
(***************************************************************************)
\* a cell, a header or a line of text
CellA == <<"a">>
CellB == <<"b">>
CellEmpty == <<>>

\* the region endpoint answers with a table only when it finds at least 2
\* columns on at least 2 rows, otherwise with the raw text of the region
RegionTables ==
  { << <<CellA, CellB>>, <<CellA, CellEmpty>> >>,
    << <<CellB, CellA>>, <<CellEmpty, CellA>>, <<CellA, CellA>> >> }

RegionTexts ==
  { <<>>, <<" ">>, <<NL, " ">>, <<"a">>, <<"a", NL, "b", NL, "b">>, <<" ", "a", NL, NL, "b", " ">> }

\* the body of the answer: data.text is an array, a string or absent
DataText(t, v) == [t |-> t, v |-> v]

\* Array.isArray(data.text) && data.text.length > 0
IsNonEmptyArray(text) == text.t = "array" /\ Len(text.v) > 0

\* mutant: the text is tested without trim()
IsNonBlankString_NoTrim(text) ==
  text.t = "string" /\ text.v # <<>>

\* data.text && typeof data.text === 'string' && data.text.trim()
IsNonBlankString(text) ==
  text.t = "string" /\ text.v # <<>> /\ Trim(text.v) # <<>>

\* { headers, data } as kept in extractedTableData
TableData(headers, data, summaries) ==
  [headers |-> headers, data |-> data, page_summaries |-> summaries]

\* the fetch of url has been sent and is not answered yet
Requested(url) == inflight # None /\ inflight[1].url = url

\* handleOverlayMouseUp after response.json(), for a response that is ok
RegionAnswer(text) ==
  IF IsNonEmptyArray(text)
  THEN /\ extractedTableData' = Some(TableData(Head(text.v), Tail(text.v), None))
       /\ extractedText' = None
       /\ showPreview' = TRUE
       /\ UNCHANGED <<error, selectedRect>>
  ELSE IF IsNonBlankString(text)
  THEN /\ extractedText' = Some(text.v)
       /\ extractedTableData' = None
       /\ showPreview' = TRUE
       /\ UNCHANGED <<error, selectedRect>>
  ELSE /\ error' = "No text found in the selected region. Try a different area."
       /\ selectedRect' = None
       /\ extractedText' = None
       /\ extractedTableData' = None
       /\ showPreview' = FALSE

\* handleOverlayMouseUp when !response.ok (HTTP error) or when fetch rejects
RegionFailure(message) ==
  /\ error' = message
  /\ selectedRect' = None
  /\ extractedText' = None
  /\ showPreview' = FALSE
  /\ UNCHANGED extractedTableData

\* handleOverlayMouseUp from the answer of the fetch to its finally block
RegionResponse(Tables, Texts) ==
  /\ Requested("extract-text-region")
  /\ \/ \E tb \in Tables : RegionAnswer(DataText("array", tb))
     \/ \E tx \in Texts : RegionAnswer(DataText("string", tx))
     \/ RegionAnswer(DataText("undefined", <<>>))
     \/ RegionFailure("Failed to extract text: <detail>")
     \/ RegionFailure("Failed to extract text from selection.")
  /\ isLoading' = FALSE
  /\ inflight' = None
  /\ op' = "extract-text-region:response"
  /\ UNCHANGED <<docVars, pageDims, pageScale10, isSelecting, selectionStart, selectionEnd,
                 tabVars, smVars, colVars, clVars, ppVars, dtVars, vwVars, csvContent>>

\* the page after it is mounted
InitPage == op = "init" /\ ClIdle /\ PpIdle /\ UiInit /\ DtIdle /\ VwIdle

NextSelect ==
  \/ FileUpload
  \/ PageLoadSuccess
  \/ Zoom
  \/ OverlayMouseDown(PxPoints)
  \/ OverlayMouseMove(PxPoints)
  \/ OverlayMouseUp
  \/ RegionResponse(RegionTables, RegionTexts)

SpecSelect == InitPage /\ [][NextSelect]_vars

(***************************************************************************)
(* Rectangle selection properties                                          *)
(***************************************************************************)
\* C1: when the mouse is released on a completed selection whose width or
\* height is under 10 page points, the selection is rejected before
\* extraction runs: an error message is set, selectedRect stays null and no
\* extract-text-region request is sent.
C1_SmallSelectionRejected ==
  [][(/\ op' = "handleOverlayMouseUp"
      /\ SelectionComplete
      /\ \/ SelectionWidth < MinSelection * PtUnit
         \/ SelectionHeight < MinSelection * PtUnit)
     => (/\ error' # ""
         /\ selectedRect' = None
         /\ inflight' = None
         /\ ~isLoading')]_vars

\* a release on a small selection has been rejected, away from 100% zoom
C1_Witness ==
  /\ op = "handleOverlayMouseUp"
  /\ error = "Selection area is too small. Please select a larger region."
  /\ selectedRect = None
  /\ inflight = None
  /\ pageScale10 # 10

PreviewOpen == showPreview /\ (extractedText # None \/ extractedTableData # None)

\* C3: a region extraction ends in exactly one of a table with at least one
\* header, non-blank plain text, or an explicit error with the preview
\* closed; the preview is never opened on zero headers and no text.
C3_TableFallbackGuarantee ==
  op = "extract-text-region:response" =>
    LET asTable == /\ PreviewOpen
                   /\ extractedTableData # None
                   /\ extractedText = None
                   /\ Len(extractedTableData[1].headers) >= 1
                   /\ error = ""
        asText  == /\ PreviewOpen
                   /\ extractedTableData = None
                   /\ extractedText # None
                   /\ Trim(extractedText[1]) # <<>>
                   /\ error = ""
        asError == /\ ~PreviewOpen
                   /\ error # ""
    IN  \/ asTable /\ ~asText /\ ~asError
        \/ asText /\ ~asTable /\ ~asError
        \/ asError /\ ~asTable /\ ~asText

\* an answer without text has been turned into the explicit error, after an
\* earlier extraction had succeeded
C3_Witness ==
  /\ op = "extract-text-region:response"
  /\ error = "No text found in the selected region. Try a different area."
  /\ ~showPreview
  /\ extractedTableData = None
  /\ extractedText = None

(***************************************************************************)
(* Bank-statement parser page: the working table                           *)
(***************************************************************************)
MaxCols == 3               \* columns of the working table that are explored
MaxRows == 2               \* rows of the working table that are explored

\* Array(n).fill('')
EmptyRow(n) == [i \in 1..n |-> CellEmpty]

\* arr.filter((_, idx) => idx !== k), with k counted from 1
RemoveAt(arr, k) == [i \in 1..(Len(arr) - 1) |-> IF i < k THEN arr[i] ELSE arr[i + 1]]

\* handleAddToTable, structured branch: the table after the merge
AddStructured(headers, data) ==
  IF Len(tableHeaders) = 0
  THEN [headers |-> headers, rows |-> data]
  ELSE [headers |-> tableHeaders \o headers,
        rows |-> [i \in DOMAIN tableRows |->
                    tableRows[i] \o (IF i <= Len(data) THEN data[i] ELSE <<>>)]]

\* handleAddToTable, plain-text branch: the table after the merge
AddPlainText(lines) ==
  LET header == Head(lines)
      dataRows == Tail(lines)
      maxRows == Max2(Len(tableRows), Len(dataRows))
  IN  IF Len(tableHeaders) = 0
      THEN [headers |-> <<header>>, rows |-> [i \in DOMAIN dataRows |-> <<dataRows[i]>>]]
      ELSE [headers |-> Append(tableHeaders, header),
            rows |-> [i \in 1..maxRows |->
                        Append(IF i <= Len(tableRows) THEN tableRows[i]
                               ELSE EmptyRow(Len(tableHeaders)),
                               IF i <= Len(dataRows) THEN dataRows[i] ELSE CellEmpty)]]

WithinTableBounds(tb) ==
  /\ Len(tb.headers) <= MaxCols
  /\ Len(tb.rows) <= MaxRows
  /\ \A i \in DOMAIN tb.rows : Len(tb.rows[i]) <= MaxCols

ClosePreview ==
  /\ showPreview' = FALSE
  /\ extractedText' = None
  /\ extractedTableData' = None
  /\ selectedRect' = None

\* handleAddToTable
AddToTable ==
  /\ PreviewOpen
  /\ ~isLoading
  /\ IF extractedTableData # None
     THEN LET tb == AddStructured(extractedTableData[1].headers, extractedTableData[1].data)
          IN  /\ WithinTableBounds(tb)
              /\ tableHeaders' = tb.headers
              /\ tableRows' = tb.rows
              /\ ClosePreview
     ELSE IF extractedText # None /\ extractedText[1] # <<>>
     THEN LET lines == TextLines(extractedText[1])
          IN  IF lines = <<>>
              THEN UNCHANGED <<tableHeaders, tableRows, showPreview, extractedText,
                               extractedTableData, selectedRect>>
              ELSE LET tb == AddPlainText(lines)
                   IN  /\ WithinTableBounds(tb)
                       /\ tableHeaders' = tb.headers
                       /\ tableRows' = tb.rows
                       /\ ClosePreview
     ELSE /\ UNCHANGED <<tableHeaders, tableRows>>
          /\ ClosePreview
  /\ op' = "handleAddToTable"
  /\ UNCHANGED <<docVars, pageDims, pageScale10, isSelecting, selectionStart, selectionEnd,
                 error, isLoading, inflight, savedTables, smVars, colVars, clVars, ppVars, dtVars, vwVars, csvContent>>

\* the table panel is rendered when tableHeaders.length > 0
TableShown == Len(tableHeaders) > 0 /\ ~isLoading

\* handleAddRow
AddRow ==
  /\ TableShown
  /\ Len(tableRows) < MaxRows
  /\ tableRows' = Append(tableRows, EmptyRow(Len(tableHeaders)))
  /\ op' = "handleAddRow"
  /\ UNCHANGED <<docVars, selVars, exVars, tableHeaders, savedTables, smVars, colVars,
                 clVars, ppVars, dtVars, vwVars, csvContent>>

\* handleRemoveRow
RemoveRow ==
  /\ TableShown
  /\ \E rowIdx \in DOMAIN tableRows : tableRows' = RemoveAt(tableRows, rowIdx)
  /\ op' = "handleRemoveRow"
  /\ UNCHANGED <<docVars, selVars, exVars, tableHeaders, savedTables, smVars, colVars,
                 clVars, ppVars, dtVars, vwVars, csvContent>>

\* row.filter((_, idx) => idx !== colIdx) on a row that may be shorter
RemoveCell(row, colIdx) == IF colIdx <= Len(row) THEN RemoveAt(row, colIdx) ELSE row

\* handleRemoveCol
RemoveCol ==
  /\ TableShown
  /\ \E colIdx \in DOMAIN tableHeaders :
       /\ tableHeaders' = RemoveAt(tableHeaders, colIdx)
       /\ tableRows' = [i \in DOMAIN tableRows |-> RemoveCell(tableRows[i], colIdx)]
  /\ op' = "handleRemoveCol"
  /\ UNCHANGED <<docVars, selVars, exVars, savedTables, smVars, colVars, clVars, ppVars, dtVars, vwVars, csvContent>>

\* handleCellChange
CellChange ==
  /\ TableShown
  /\ \E rowIdx \in DOMAIN tableRows : \E colIdx \in DOMAIN tableRows[rowIdx] :
       \E value \in {CellA} :
         /\ tableRows[rowIdx][colIdx] # value
         /\ tableRows' = [tableRows EXCEPT ![rowIdx][colIdx] = value]
  /\ op' = "handleCellChange"
  /\ UNCHANGED <<docVars, selVars, exVars, tableHeaders, savedTables, smVars, colVars,
                 clVars, ppVars, dtVars, vwVars, csvContent>>

\* tables kept on the server by handleSaveTable in earlier sessions, as
\* /get-tables returns them
SavedOnServer ==
  << [headers |-> <<CellA, CellB>>, rows |-> << <<CellA, CellEmpty>>, <<CellEmpty, CellA>> >>],
     [headers |-> <<CellB>>, rows |-> <<>>] >>

\* fetchSavedTables
FetchSavedTables ==
  /\ savedTables = <<>>
  /\ \/ savedTables' = SavedOnServer
     \/ savedTables' = <<>>
  /\ op' = "fetchSavedTables"
  /\ UNCHANGED <<docVars, selVars, exVars, tableHeaders, tableRows, smVars, colVars,
                 clVars, ppVars, dtVars, vwVars, csvContent>>

\* handleLoadTable
LoadTable ==
  /\ ~isLoading
  /\ \E k \in DOMAIN savedTables :
       /\ tableHeaders' = savedTables[k].headers
       /\ tableRows' = savedTables[k].rows
  /\ op' = "handleLoadTable"
  /\ UNCHANGED <<docVars, selVars, exVars, savedTables, smVars, colVars, clVars, ppVars, dtVars, vwVars, csvContent>>

(***************************************************************************)
(* Bank-statement parser page: extraction modes and smart extraction       *)
(***************************************************************************)
\* the Rectangle radio button
SelectRectangleMode ==
  /\ pdfFile
  /\ ~isLoading
  /\ isColumnMode' = FALSE
  /\ isSmartMode' = FALSE
  /\ textSpans' = <<>>
  /\ op' = "mode:Rectangle"
  /\ UNCHANGED <<docVars, selVars, exVars, tabVars, smartExtractionResult, spansInflight,
                 columns, columnStartPage, columnEndPage, multiPageMode, clVars, ppVars, dtVars, vwVars, csvContent>>

\* the Smart Bank Statement radio button
SelectSmartMode ==
  /\ pdfFile
  /\ ~isLoading
  /\ isSmartMode' = TRUE
  /\ isColumnMode' = FALSE
  /\ textSpans' = <<>>
  /\ op' = "mode:Smart"
  /\ UNCHANGED <<docVars, selVars, exVars, tabVars, smartExtractionResult, spansInflight,
                 columns, columnStartPage, columnEndPage, multiPageMode, clVars, ppVars, dtVars, vwVars, csvContent>>

\* handleSmartExtraction up to the fetch of /intelligent-bank-extract
SmartExtraction ==
  /\ isSmartMode
  /\ pdfFile
  /\ ~isLoading
  /\ isLoading' = TRUE
  /\ error' = ""
  /\ inflight' = Some([url |-> "intelligent-bank-extract"])
  /\ op' = "handleSmartExtraction"
  /\ UNCHANGED <<docVars, selVars, extractedText, extractedTableData, showPreview, tabVars,
                 smVars, colVars, clVars, ppVars, dtVars, vwVars, csvContent>>

\* keys and values of a transaction object, in insertion order
Field(k, present, v) == [key |-> k, present |-> present, value |-> v]

TxnFull == <<Field(CellA, TRUE, CellA), Field(CellB, TRUE, CellA), Field(<<"_", "a">>, TRUE, CellB)>>
TxnNoB == <<Field(<<"_", "a">>, TRUE, CellB), Field(CellA, TRUE, CellA), Field(CellB, FALSE, CellEmpty)>>

\* the body of a smart-extraction answer; headers and transactions may be absent
SmartData(success, hasTxns, txns, hasHeaders, headers, err) ==
  [success |-> success, hasTransactions |-> hasTxns, transactions |-> txns,
   hasHeaders |-> hasHeaders, headers |-> headers, error |-> err]

\* the engine answers with the transactions found under the detected header
\* row, or with a failure when no header row is detected
SmartSuccesses ==
  { SmartData(TRUE, TRUE, <<TxnFull>>, TRUE, <<CellA, CellB>>, ""),
    SmartData(TRUE, TRUE, <<TxnFull, TxnNoB>>, TRUE, <<CellB, CellA>>, ""),
    SmartData(TRUE, TRUE, <<TxnNoB, TxnFull>>, FALSE, <<>>, "") }

SmartFailures ==
  { SmartData(FALSE, TRUE, <<>>, TRUE, <<>>, "No transaction table found"),
    SmartData(FALSE, FALSE, <<>>, FALSE, <<>>, ""),
    SmartData(TRUE, TRUE, <<>>, TRUE, <<CellA, CellB>>, ""),
    SmartData(TRUE, TRUE, <<>>, FALSE, <<>>, ""),
    SmartData(TRUE, FALSE, <<>>, FALSE, <<>>, "") }

\* key.startsWith('_')
StartsWithUnderscore(k) == k # <<>> /\ Head(k) = "_"

\* Object.keys(txn).filter(key => !key.startsWith('_'))
RECURSIVE PublicKeys(_)
PublicKeys(txn) ==
  IF txn = <<>> THEN <<>>
  ELSE IF StartsWithUnderscore(Head(txn).key) THEN PublicKeys(Tail(txn))
  ELSE <<Head(txn).key>> \o PublicKeys(Tail(txn))

\* txn[header]?.toString() || ''
RECURSIVE TxnCell(_, _)
TxnCell(txn, header) ==
  IF txn = <<>> THEN CellEmpty
  ELSE IF Head(txn).key = header
       THEN (IF Head(txn).present THEN Head(txn).value ELSE CellEmpty)
       ELSE TxnCell(Tail(txn), header)

\* mutant: the transactions array is not required to be non-empty
SmartSucceeded_AllowsEmpty(data) ==
  data.success /\ data.hasTransactions

\* data.success && data.transactions && data.transactions.length > 0
SmartSucceeded(data) ==
  data.success /\ data.hasTransactions /\ Len(data.transactions) > 0

\* mutant: the headers are always rebuilt from the keys of the first transaction
SmartHeaders_FromKeys(data) ==
  PublicKeys(data.transactions[1])

\* data.headers || Object.keys(data.transactions[0]).filter(key => !key.startsWith('_'))
SmartHeaders(data) ==
  IF data.hasHeaders THEN data.headers ELSE PublicKeys(data.transactions[1])

\* handleSmartExtraction after response.json(), for a response that is ok
SmartAnswer(data) ==
  IF SmartSucceeded(data)
  THEN IF ~data.hasHeaders /\ data.transactions = <<>>
       THEN \* Object.keys(undefined) throws after the result was set: catch block
            /\ smartExtractionResult' = Some(data)
            /\ error' = "Failed to process bank statement. Please try manual mode."
            /\ UNCHANGED <<tableHeaders, tableRows>>
       ELSE LET headers == SmartHeaders(data)
            IN  /\ smartExtractionResult' = Some(data)
                /\ tableHeaders' = headers
                /\ tableRows' = [i \in DOMAIN data.transactions |->
                                   [j \in DOMAIN headers |->
                                      TxnCell(data.transactions[i], headers[j])]]
                /\ UNCHANGED error
  ELSE /\ error' = (IF data.error # "" THEN data.error ELSE "No transactions found in the bank statement. Please try manual mode.")
       /\ UNCHANGED <<smartExtractionResult, tableHeaders, tableRows>>

SmartFailure(message) ==
  /\ error' = message
  /\ UNCHANGED <<smartExtractionResult, tableHeaders, tableRows>>

\* handleSmartExtraction from the answer of the fetch on
SmartResponse ==
  /\ Requested("intelligent-bank-extract")
  /\ \/ \E data \in SmartSuccesses : SmartAnswer(data)
     \/ \E data \in SmartFailures : SmartAnswer(data)
     \/ SmartFailure("Smart extraction failed: <detail>")
     \/ SmartFailure("Failed to process bank statement. Please try manual mode.")
  /\ isLoading' = FALSE
  /\ inflight' = None
  /\ op' = "intelligent-bank-extract:response"
  /\ UNCHANGED <<docVars, selVars, extractedText, extractedTableData, showPreview,
                 savedTables, isSmartMode, colVars, clVars, ppVars, dtVars, vwVars, csvContent>>

NextTable ==
  \/ FileUpload
  \/ PageLoadSuccess
  \/ OverlayMouseDown({<<0, 0>>})
  \/ OverlayMouseMove({<<30, 30>>})
  \/ OverlayMouseUp
  \/ RegionResponse(RegionTables, {<<" ">>, <<"b">>, <<"b", NL, "a", NL, " ", NL, "a">>})
  \/ AddToTable
  \/ AddRow
  \/ RemoveRow
  \/ RemoveCol
  \/ CellChange
  \/ FetchSavedTables
  \/ LoadTable

SpecTable == InitPage /\ [][NextTable]_vars

NextSmart ==
  \/ FileUpload
  \/ SelectRectangleMode
  \/ SelectSmartMode
  \/ SmartExtraction
  \/ SmartResponse
  \/ AddRow
  \/ RemoveRow
  \/ RemoveCol
  \/ CellChange

SpecSmart == InitPage /\ [][NextSmart]_vars

(***************************************************************************)
(* Working table properties                                                *)
(***************************************************************************)
\* C2: after any sequence of Add to Table, Add Row, Remove Row, Remove
\* Column, cell edit, Load saved table and smart extraction, every row of
\* tableRows has exactly tableHeaders.length cells.
C2_RowsMatchHeaders ==
  \A i \in DOMAIN tableRows : Len(tableRows[i]) = Len(tableHeaders)

\* C4: a smart-extraction answer either reports an error and leaves
\* smartExtractionResult, tableHeaders and tableRows as they were, or it is a
\* success with at least one transaction that fills the table; an answer with
\* success false or without transactions is always of the first kind.
C4_NoTransactionsIsFailure ==
  [][op' = "intelligent-bank-extract:response" =>
       \/ /\ error' # ""
          /\ UNCHANGED <<smartExtractionResult, tableHeaders, tableRows>>
       \/ /\ error' = ""
          /\ smartExtractionResult' # None
          /\ smartExtractionResult'[1].success
          /\ smartExtractionResult'[1].hasTransactions
          /\ Len(smartExtractionResult'[1].transactions) > 0
          /\ Len(tableRows') = Len(smartExtractionResult'[1].transactions)]_vars

\* an answer without transactions has been reported as an error while the
\* table filled by an earlier, successful smart extraction is still in place
C4_Witness ==
  /\ op = "intelligent-bank-extract:response"
  /\ error = "No transactions found in the bank statement. Please try manual mode."
  /\ smartExtractionResult # None
  /\ Len(tableRows) > 0

\* C14: after a successful smart extraction the table headers are the headers
\* the parser returned, in the same order and unchanged (the public keys of the
\* first transaction when it returned none), and every row has one cell per
\* header: the transaction's value under that header, or the empty string when
\* the transaction has none.
C14_SmartHeadersVerbatim ==
  [][(op' = "intelligent-bank-extract:response" /\ error' = "") =>
       LET data == smartExtractionResult'[1]
           ValueOf(txn, h) ==
             LET fs == {k \in DOMAIN txn : txn[k].key = h /\ txn[k].present}
             IN  IF fs = {} THEN CellEmpty ELSE txn[CHOOSE k \in fs : TRUE].value
       IN  /\ data.hasHeaders => tableHeaders' = data.headers
           /\ ~data.hasHeaders =>
                \A j \in DOMAIN tableHeaders' :
                  /\ Head(tableHeaders'[j]) # "_"
                  /\ \E k \in DOMAIN data.transactions[1] :
                       data.transactions[1][k].key = tableHeaders'[j]
           /\ Len(tableRows') = Len(data.transactions)
           /\ \A i \in DOMAIN tableRows' :
                /\ Len(tableRows'[i]) = Len(tableHeaders')
                /\ \A j \in DOMAIN tableHeaders' :
                     tableRows'[i][j] = ValueOf(data.transactions[i], tableHeaders'[j])]_vars

\* the parser's headers, in an order that is not the key order of the
\* transactions, are in the table, and the second transaction has no value
\* under the first header
C14_Witness ==
  /\ op = "intelligent-bank-extract:response"
  /\ error = ""
  /\ smartExtractionResult # None
  /\ smartExtractionResult[1].hasHeaders
  /\ tableHeaders = <<CellB, CellA>>
  /\ tableRows = << <<CellA, CellA>>, <<CellEmpty, CellA>> >>

(***************************************************************************)
(* Bank-statement parser page: column mode                                 *)
(***************************************************************************)
MaxColumns == 2            \* column definitions that are explored
columnPadding == 10

\* <Document onLoadSuccess>: react-pdf reports the page count of the file it
\* has loaded
DocumentLoadSuccess ==
  /\ pdfFile
  /\ numPages # filePages
  /\ numPages' = filePages
  /\ op' = "Document.onLoadSuccess"
  /\ UNCHANGED <<pdfFile, filePages, currentPage, selVars, exVars, tabVars, smVars, colVars, clVars,
                 ppVars, dtVars, vwVars, csvContent>>

\* the Column radio button; it calls fetchTextSpans(currentPage)
SelectColumnMode ==
  /\ pdfFile
  /\ ~isLoading
  /\ isColumnMode' = TRUE
  /\ isSmartMode' = FALSE
  /\ spansInflight' = spansInflight \cup {currentPage}
  /\ op' = "mode:Column"
  /\ UNCHANGED <<docVars, selVars, exVars, tabVars, smartExtractionResult, textSpans, columns,
                 columnStartPage, columnEndPage, multiPageMode, clVars, ppVars, dtVars, vwVars, csvContent>>

\* the words /get-text-spans finds on a page of the statement
PageSpans(p) ==
  IF p % 3 = 1 THEN <<[text |-> CellA, x0 |-> 5, x1 |-> 40], [text |-> CellB, x0 |-> 60, x1 |-> 90]>>
  ELSE IF p % 3 = 2 THEN <<>>
  ELSE <<[text |-> CellB, x0 |-> 62, x1 |-> 92]>>

\* fetchTextSpans from the answer of the fetch on
TextSpansResponse ==
  /\ \E p \in spansInflight :
       /\ spansInflight' = spansInflight \ {p}
       /\ \/ textSpans' = PageSpans(p)          \* data.words is an array
          \/ textSpans' = <<>>                  \* invalid format, or the fetch rejects
          \/ UNCHANGED textSpans                \* !response.ok
  /\ op' = "get-text-spans:response"
  /\ UNCHANGED <<docVars, selVars, exVars, tabVars, smVars, isColumnMode, columns,
                 columnStartPage, columnEndPage, multiPageMode, clVars, ppVars, dtVars, vwVars, csvContent>>

\* the text spans are clickable in column mode, under the loading overlay not
SpansActive == pdfFile /\ isColumnMode /\ ~isLoading

\* handleTextSpanClick
TextSpanClick ==
  /\ SpansActive
  /\ Len(columns) < MaxColumns
  /\ \E k \in DOMAIN textSpans :
       LET span == textSpans[k]
       IN  /\ \A c \in DOMAIN columns : columns[c].name # span.text
           /\ columns' = Append(columns, [name |-> span.text,
                                          x0 |-> Max2(0, span.x0 - columnPadding),
                                          x1 |-> span.x1 + columnPadding])
  /\ op' = "handleTextSpanClick"
  /\ UNCHANGED <<docVars, selVars, exVars, tabVars, smVars, isColumnMode, textSpans,
                 spansInflight, columnStartPage, columnEndPage, multiPageMode, clVars, ppVars, dtVars, vwVars, csvContent>>

\* the column panel is rendered in column mode once a column is defined
ColumnPanelShown == pdfFile /\ isColumnMode /\ Len(columns) > 0 /\ ~isLoading

\* removeColumn; the id names the column at position k
RemoveColumn ==
  /\ ColumnPanelShown
  /\ \E k \in DOMAIN columns : columns' = RemoveAt(columns, k)
  /\ op' = "removeColumn"
  /\ UNCHANGED <<docVars, selVars, exVars, tabVars, smVars, isColumnMode, textSpans,
                 spansInflight, columnStartPage, columnEndPage, multiPageMode, clVars, ppVars, dtVars, vwVars, csvContent>>

\* the two Page Range inputs: setColumnStartPage / setColumnEndPage
SetColumnRange ==
  /\ ColumnPanelShown
  /\ \E v \in 1..numPages :
       \/ columnStartPage' = v /\ v # columnStartPage /\ UNCHANGED columnEndPage
       \/ columnEndPage' = v /\ v # columnEndPage /\ UNCHANGED columnStartPage
  /\ op' = "setColumnRange"
  /\ UNCHANGED <<docVars, selVars, exVars, tabVars, smVars, isColumnMode, textSpans,
                 spansInflight, columns, multiPageMode, clVars, ppVars, dtVars, vwVars, csvContent>>

\* handleMultiPageColumnExtraction up to the fetch of /extract-multi-page-columns
MultiPageColumnExtraction ==
  /\ ColumnPanelShown
  /\ isLoading' = TRUE
  /\ error' = ""
  /\ inflight' = Some([url |-> "extract-multi-page-columns",
                       start_page |-> columnStartPage - 1,
                       end_page |-> columnEndPage - 1,
                       columns |-> columns])
  /\ op' = "handleMultiPageColumnExtraction"
  /\ UNCHANGED <<docVars, selVars, extractedText, extractedTableData, showPreview, tabVars,
                 smVars, colVars, clVars, ppVars, dtVars, vwVars, csvContent>>

\* what column extraction finds on a page of the statement
PageYield(p) == IF p % 3 = 1 THEN "table" ELSE IF p % 3 = 2 THEN "none" ELSE "text"

\* one page_summaries entry; page is the 0-based page index of the request
PageSummary(page, type) ==
  [page |-> page, type |-> type,
   rows |-> (IF type = "table" THEN 1 ELSE 0),
   length |-> (IF type = "text" THEN 1 ELSE 0)]

\* the answer of /extract-multi-page-columns to a request: one data cell per
\* column for every page that yields a table row, one more cell in the band
\* that has the only word of a page that yields text (the data arrays are not
\* aligned across pages), one summary per page of the range, in page order
ColumnsAnswerOf(req) ==
  LET n == Max2(0, req.end_page - req.start_page + 1)
      tablePages == {i \in 1..n : PageYield(req.start_page + i) = "table"}
      textPages == {i \in 1..n : PageYield(req.start_page + i) = "text"}
      cells(name) == Cardinality(tablePages) + (IF name = CellB THEN Cardinality(textPages) ELSE 0)
  IN  [hasColumns |-> TRUE,
       columns |-> [c \in DOMAIN req.columns |->
                      [name |-> req.columns[c].name,
                       data |-> [r \in 1..cells(req.columns[c].name) |-> req.columns[c].name]]],
       hasSummaries |-> TRUE,
       page_summaries |-> [i \in 1..n |->
                             PageSummary(req.start_page + i - 1, PageYield(req.start_page + i))]]

RECURSIVE MaxLen(_)
MaxLen(arrays) ==
  IF arrays = <<>> THEN 0 ELSE Max2(Len(Head(arrays)), MaxLen(Tail(arrays)))

\* mutant: as many rows as the first column has entries
transpose_FirstLength(arrays) ==
  IF Len(arrays) = 0 THEN <<>>
  ELSE [i \in 1..Len(arrays[1]) |->
          [a \in DOMAIN arrays |-> IF i <= Len(arrays[a]) THEN arrays[a][i] ELSE CellEmpty]]

\* transpose(arrays)
transpose(arrays) ==
  IF Len(arrays) = 0 THEN <<>>
  ELSE [i \in 1..MaxLen(arrays) |->
          [a \in DOMAIN arrays |->
             IF i <= Len(arrays[a]) /\ arrays[a][i] # CellEmpty THEN arrays[a][i] ELSE CellEmpty]]

\* mutant: the summaries of the answer are not kept
KeptSummaries_Dropped(data) == <<>>

\* data.page_summaries || []
KeptSummaries(data) == IF data.hasSummaries THEN data.page_summaries ELSE <<>>


\* handleMultiPageColumnExtraction after response.json(), for a response that is ok
ColumnsAnswer(data) ==
  IF data.hasColumns
  THEN /\ extractedTableData' =
            Some(TableData([c \in DOMAIN data.columns |-> data.columns[c].name],
                           transpose([c \in DOMAIN data.columns |-> data.columns[c].data]),
                           Some(KeptSummaries(data))))
       /\ showPreview' = TRUE
       /\ UNCHANGED error
  ELSE /\ error' = "No column data found."
       /\ UNCHANGED <<extractedTableData, showPreview>>

ColumnsFailure(message) ==
  /\ error' = message
  /\ UNCHANGED <<extractedTableData, showPreview>>

\* handleMultiPageColumnExtraction from the answer of the fetch on
ColumnsResponse ==
  /\ Requested("extract-multi-page-columns")
  /\ \/ ColumnsAnswer(ColumnsAnswerOf(inflight[1]))
     \/ ColumnsAnswer([hasColumns |-> FALSE, columns |-> <<>>,
                       hasSummaries |-> FALSE, page_summaries |-> <<>>])
     \/ ColumnsFailure("Failed to extract columns: <detail>")
     \/ ColumnsFailure("Failed to extract columns.")
  /\ isLoading' = FALSE
  /\ inflight' = None
  /\ op' = "extract-multi-page-columns:response"
  /\ UNCHANGED <<docVars, selVars, extractedText, tabVars, smVars, colVars, clVars, ppVars, dtVars, vwVars, csvContent>>

\* the Multi-page extraction checkbox, rendered while selectedRect is set
ToggleMultiPageMode ==
  /\ selectedRect # None
  /\ ~isLoading
  /\ multiPageMode' = ~multiPageMode
  /\ op' = "setMultiPageMode"
  /\ UNCHANGED <<docVars, selVars, exVars, tabVars, smVars, isColumnMode, textSpans,
                 spansInflight, columns, columnStartPage, columnEndPage, clVars, ppVars, dtVars, vwVars, csvContent>>

\* the lines of the Multi-Page Extraction Summary panel: "Page {page + 1}: ..."
SummaryPanel ==
  IF showPreview /\ multiPageMode /\ extractedTableData # None
       /\ extractedTableData[1].page_summaries # None
  THEN LET sums == extractedTableData[1].page_summaries[1]
       IN  [i \in DOMAIN sums |-> [page |-> sums[i].page + 1, type |-> sums[i].type]]
  ELSE <<>>

NextColumns ==
  \/ FileUpload
  \/ DocumentLoadSuccess
  \/ PageLoadSuccess
  \/ OverlayMouseDown({<<0, 0>>})
  \/ OverlayMouseMove({<<30, 30>>})
  \/ OverlayMouseUp
  \/ RegionResponse({}, {<<"b">>})
  \/ ToggleMultiPageMode
  \/ SelectColumnMode
  \/ TextSpansResponse
  \/ TextSpanClick
  \/ RemoveColumn
  \/ SetColumnRange
  \/ MultiPageColumnExtraction
  \/ ColumnsResponse

SpecColumns == InitPage /\ [][NextColumns]_vars

(***************************************************************************)
(* Bank-statement parser page: paging and column boundaries                *)
(***************************************************************************)
ShortDocPages == 1         \* pages of a second, shorter statement
MaxBoundarySteps == 1      \* nudges explored around a detected boundary

\* the Prev button: setCurrentPage(p => Math.max(1, p - 1)), disabled on page 1
PrevPage ==
  /\ pdfFile
  /\ ~isLoading
  /\ ~(currentPage <= 1)
  /\ currentPage' = Max2(1, currentPage - 1)
  /\ op' = "Prev"
  /\ UNCHANGED <<pdfFile, filePages, numPages, selVars, exVars, tabVars, smVars, colVars,
                 clVars, ppVars, dtVars, vwVars, csvContent>>

\* the Next button, disabled on the last page; in column mode it calls
\* fetchTextSpans(newPage)
NextPage ==
  /\ pdfFile
  /\ ~isLoading
  /\ ~(currentPage >= numPages)
  /\ LET newPage == Min2(numPages, currentPage + 1)
     IN  /\ currentPage' = newPage
         /\ spansInflight' = IF isColumnMode THEN spansInflight \cup {newPage}
                             ELSE spansInflight
  /\ op' = "Next"
  /\ UNCHANGED <<pdfFile, filePages, numPages, selVars, exVars, tabVars, smVars, isColumnMode,
                 textSpans, columns, columnStartPage, columnEndPage, multiPageMode,
                 clVars, ppVars, dtVars, vwVars, csvContent>>

\* the boundaries handleTextSpanClick detects on the pages of the statement
DetectedBoundaries ==
  UNION {UNION {{Max2(0, PageSpans(p)[k].x0 - columnPadding), PageSpans(p)[k].x1 + columnPadding} :
                  k \in DOMAIN PageSpans(p)} : p \in 1..NumDocPages}

\* updateColumnBoundary(columnId, boundary, delta) from the four nudger
\* buttons of a column; the id names the column at position k
updateColumnBoundary ==
  /\ ColumnPanelShown
  /\ \E k \in DOMAIN columns : \E boundary \in {"x0", "x1"} : \E delta \in {-1, 1} :
       LET col == columns[k]
           moved == IF boundary = "x0" THEN [col EXCEPT !.x0 = col.x0 + delta]
                    ELSE [col EXCEPT !.x1 = col.x1 + delta]
       IN  /\ \E b \in DetectedBoundaries :
                Abs((IF boundary = "x0" THEN moved.x0 ELSE moved.x1) - b) <= MaxBoundarySteps
           /\ columns' = [columns EXCEPT ![k] = moved]
  /\ op' = "updateColumnBoundary"
  /\ UNCHANGED <<docVars, selVars, exVars, tabVars, smVars, isColumnMode, textSpans,
                 spansInflight, columnStartPage, columnEndPage, multiPageMode,
                 clVars, ppVars, dtVars, vwVars, csvContent>>

NextPaging ==
  \/ FileUpload
  \/ FileUploadOf(ShortDocPages)
  \/ DocumentLoadSuccess
  \/ SelectColumnMode
  \/ PrevPage
  \/ NextPage
  \/ TextSpansResponse
  \/ TextSpanClick
  \/ RemoveColumn
  \/ updateColumnBoundary

SpecPaging == InitPage /\ [][NextPaging]_vars

(***************************************************************************)
(* Column extraction properties                                            *)
(***************************************************************************)
\* C7: a multi-page column extraction over startPage..endPage yields exactly
\* one page_summaries entry per page of the range, in page order, each with
\* what that page produced (a page without matching rows is "none" at its
\* own index); the entries are kept in extractedTableData and are the lines
\* of the summary panel when it is rendered.
C7_PageSummariesPerPage ==
  [][(op' = "extract-multi-page-columns:response" /\ error' = "") =>
       LET first == inflight[1].start_page + 1
           last == inflight[1].end_page + 1
           expected == [i \in 1..Max2(0, last - first + 1) |->
                          [page |-> first + i - 1, type |-> PageYield(first + i - 1)]]
       IN  /\ showPreview'
           /\ extractedTableData' # None
           /\ extractedTableData'[1].page_summaries # None
           /\ LET kept == extractedTableData'[1].page_summaries[1]
              IN  /\ Len(kept) = Len(expected)
                  /\ \A i \in DOMAIN kept :
                       /\ kept[i].page + 1 = expected[i].page
                       /\ kept[i].type = expected[i].type
           /\ multiPageMode' => SummaryPanel' = expected]_vars

\* pages 1..3 have been extracted, page 2 had no matching rows, and the
\* panel lists the three pages with page 2 as "none"
C7_Witness ==
  /\ op = "extract-multi-page-columns:response"
  /\ error = ""
  /\ Len(SummaryPanel) = 3
  /\ SummaryPanel[1] = [page |-> 1, type |-> "table"]
  /\ SummaryPanel[2] = [page |-> 2, type |-> "none"]
  /\ SummaryPanel[3] = [page |-> 3, type |-> "text"]

\* C15: the preview of a column extraction has the names of the returned
\* columns as headers and as many rows as the longest returned column has
\* entries; every row has one cell per column, cell j of row i being entry i of
\* column j, or the empty string when that column has no entry i.
C15_ColumnsAlignedByRowIndex ==
  [][(op' = "extract-multi-page-columns:response" /\ error' = "") =>
       LET cols == ColumnsAnswerOf(inflight[1]).columns
           preview == extractedTableData'[1]
       IN  /\ preview.headers = [j \in DOMAIN cols |-> cols[j].name]
           /\ \A j \in DOMAIN cols : Len(cols[j].data) <= Len(preview.data)
           /\ \E j \in DOMAIN cols : Len(cols[j].data) = Len(preview.data)
           /\ \A i \in DOMAIN preview.data :
                /\ Len(preview.data[i]) = Len(cols)
                /\ \A j \in DOMAIN cols :
                     preview.data[i][j] = IF i <= Len(cols[j].data) THEN cols[j].data[i]
                                          ELSE CellEmpty]_vars

\* two columns came back with one and two entries: the second row of the
\* preview has the empty string under the shorter column
C15_Witness ==
  /\ op = "extract-multi-page-columns:response"
  /\ error = ""
  /\ extractedTableData # None
  /\ extractedTableData[1].headers = <<CellA, CellB>>
  /\ extractedTableData[1].data = << <<CellA, CellB>>, <<CellEmpty, CellB>> >>

(***************************************************************************)
(* Pipeline properties                                                     *)
(***************************************************************************)
\* C8: in a multi-page extraction a failure on one page (an unreadable page,
\* a scanned page without OCR capability) is isolated: the batch ends early
\* only on a whole-document failure, and when the words are returned every
\* page of the document has been gone through.
C8_PerPageFailureIsolated ==
  /\ ppPc = "raised" => ~ppDocOk
  /\ ppPc \in {"words", "rows", "done"} => ppIdx = Len(ppPages) + 1

FinalStates == {"TableInferred", "RegionExtracted", "InferenceFailed"}

StateRank(st) ==
  CASE st = "none" -> 0
    [] st = "Uploaded" -> 1
    [] st = "Classified" -> 2
    [] st = "WordsExtracted" -> 3
    [] st = "RowsClustered" -> 4
    [] st \in FinalStates -> 5

\* C9: a document's processing state only moves forward along Uploaded,
\* Classified, WordsExtracted, RowsClustered and ends in one of TableInferred,
\* RegionExtracted, InferenceFailed; a final state is left only by a new
\* request of the user (no automatic retry after InferenceFailed).
C9_ForwardOnlyNoRetry ==
  [][ /\ docState \in FinalStates /\ docState' # docState
          => op' = "NewRequest" /\ docState' = "Uploaded"
      /\ docState \notin FinalStates
          => /\ StateRank(docState') >= StateRank(docState)
             /\ docState' = "RowsClustered" => docState \in {"WordsExtracted", "RowsClustered"}
             /\ docState' = "WordsExtracted" => docState \in {"Classified", "WordsExtracted"}
             /\ docState' = "Classified" => docState \in {"Uploaded", "Classified"}
             /\ docState' \in {"TableInferred", "RegionExtracted"} => docState = "RowsClustered"
    ]_vars

\* a second request was made after the first one ended in InferenceFailed
C9_Witness ==
  /\ ppRequests = 2
  /\ docState = "InferenceFailed"
  /\ ppPc = "done"

C11_DigitalIffNonBlankText ==
  \A i \in DOMAIN page_analysis :
    page_analysis[i] <=>
      /\ ~extract_text(ppPages[i]).throws
      /\ \E k \in DOMAIN extract_text(ppPages[i]).text : ~IsSpace(extract_text(ppPages[i]).text[k])

\* a document was classified that has a digital page whose text is padded with
\* white space, a page of white space only and a page with no text at all
C11_Witness ==
  /\ Len(page_analysis) = 3
  /\ \E i, j, k \in DOMAIN page_analysis :
       /\ ppPages[i] = "digital" /\ page_analysis[i]
       /\ ppPages[j] = "blank" /\ ~page_analysis[j]
       /\ ppPages[k] = "scanned" /\ ~page_analysis[k]

\* C12: a page whose text extraction throws is never given a classification
\* (neither scanned nor digital): the classifier hands the failure on to its
\* caller.
C12_ClassifierPropagatesReadError ==
  \A i \in DOMAIN page_analysis : ~extract_text(ppPages[i]).throws

\* C13: a missing OCR or rasterization capability never ends the request: when
\* the document opens and no digital page fails, the scanned pages yield no
\* words and the extraction goes on over the remaining pages.
C13_CapabilityUnavailableDegrades ==
  (ppDocOk /\ \A i \in DOMAIN ppPages : ppPages[i] # "badwords") => ppPc # "raised"

(***************************************************************************)
(* DataTable component: the table blocks are dragged into                  *)
(*                                                                         *)
(* A re-render and the effects it triggers run before the next input, so   *)
(* every action is a handler followed by RunEffects. Cell ids are not kept *)
(* (generateId never repeats one): a cell is its content. columnIndex is   *)
(* 0-based as in the component.                                            *)
(***************************************************************************)
DtMaxRows == 2             \* rows the table is allowed to grow to
DtMaxCols == 3             \* columns the table is allowed to grow to

\* the blocks of a multi-block drag: their texts, untrimmed
DroppedBlocks == << <<" ", "a">>, <<"b", " ">> >>

\* `Column ${n}`
ColumnName(n) == <<"C", "o", "l", "u", "m", "n", " ">> \o << <<"1", "2", "3", "4", "5", "6", "7", "8", "9">>[n] >>

defaultHeaders == <<ColumnName(1), ColumnName(2), ColumnName(3)>>

\* a row id: `cell-${n}` from generateId, `row-${n}` from placeBlocksAsRows,
\* 'header-' + n for a drop on a header
Id(kind, n) == [kind |-> kind, n |-> n]

\* generateId(): the counter never returns an id twice; the ids are numbered
\* here by the least number no row of rs carries
generateId(rs) ==
  Id("cell", CHOOSE n \in 1..(Len(rs) + 1) :
               /\ \A i \in DOMAIN rs : rs[i].id # Id("cell", n)
               /\ \A m \in 1..(n - 1) : \E i \in DOMAIN rs : rs[i].id = Id("cell", m))

\* mutant: a new row gets one cell less than there are headers
NewCells_OneShort(n) == [j \in 1..(n - 1) |-> CellEmpty]

\* n cells { content: '' }
NewCells(n) == [j \in 1..n |-> CellEmpty]

\* currentRows.map(row => row.cells.map(cell => cell.content))
TableDataOf(currentRows) == [i \in DOMAIN currentRows |-> currentRows[i].cells]

\* existingContent.includes(newText)
Includes(str, sub) ==
  \E i \in 0..(Len(str) - Len(sub)) : SubSeq(str, i + 1, i + Len(sub)) = sub

\* the content of a cell after a block was placed on it (no duplication)
PlacedContent(content, blockText) ==
  LET existingContent == Trim(content)
      newText == Trim(blockText)
  IN  IF existingContent # <<>> /\ ~Includes(existingContent, newText)
      THEN existingContent \o <<NL>> \o newText
      ELSE IF existingContent = <<>> THEN newText ELSE content

\* prevRows.findIndex(row => row.id === targetRowId), 1-based, 0 for -1
FindIndex(prevRows, targetRowId) ==
  IF \E i \in DOMAIN prevRows : prevRows[i].id = targetRowId
  THEN CHOOSE i \in DOMAIN prevRows :
         /\ prevRows[i].id = targetRowId
         /\ \A j \in 1..(i - 1) : prevRows[j].id # targetRowId
  ELSE 0

\* the second useEffect and the third: onHeadersChange when columnHeaders was
\* set, and the rows cut or padded to the header count when that count changed
RunEffects(rows2, headers2, headersSet, data2, notified2) ==
  LET headerCount == Len(headers2)
      fix == headerCount # Len(columnHeaders) /\ headerCount > 0 /\ Len(rows2) > 0
      updatedRows ==
        [i \in DOMAIN rows2 |->
           LET cells == rows2[i].cells
           IN  [id |-> rows2[i].id,
                cells |-> IF ~fix THEN cells
                          ELSE IF Len(cells) < headerCount
                          THEN cells \o NewCells(headerCount - Len(cells))
                          ELSE SubSeq(cells, 1, headerCount)]]
      hasChanges == \E i \in DOMAIN rows2 : Len(updatedRows[i].cells) # Len(rows2[i].cells)
  IN  /\ dtRows' = updatedRows
      /\ columnHeaders' = headers2
      /\ parentData' = IF hasChanges THEN Some(TableDataOf(updatedRows)) ELSE data2
      /\ parentHeaders' = IF headersSet /\ headerCount > 0 THEN headers2 ELSE notified2

\* the first render: the "Initialize with default data" effect
InitializeDefault ==
  /\ dtRows = <<>>
  /\ columnHeaders = <<>>
  /\ RunEffects(<<[id |-> generateId(<<>>), cells |-> NewCells(Len(defaultHeaders))]>>,
                defaultHeaders, TRUE, parentData, defaultHeaders)
  /\ op' = "DataTable:mount"
  /\ UNCHANGED <<showChoiceDialog, pendingPlacement, dropTimeout, clVars, ppVars, uiVars, vwVars, csvContent>>

\* the table takes input: it is mounted, the choice dialog (a modal overlay)
\* is closed, and no dialog is about to open (the next input comes later than
\* the 50 ms of the timeout)
DtReady ==
  /\ columnHeaders # <<>>
  /\ ~showChoiceDialog
  /\ dropTimeout = None

\* the + Row button
addRow ==
  /\ DtReady
  /\ Len(dtRows) < DtMaxRows
  /\ LET updatedRows == Append(dtRows, [id |-> generateId(dtRows),
                                        cells |-> NewCells(Len(columnHeaders))])
     IN  RunEffects(updatedRows, columnHeaders, FALSE, Some(TableDataOf(updatedRows)), parentHeaders)
  /\ op' = "addRow"
  /\ UNCHANGED <<showChoiceDialog, pendingPlacement, dropTimeout, clVars, ppVars, uiVars, vwVars, csvContent>>

\* the + Column button
addColumn ==
  /\ DtReady
  /\ Len(columnHeaders) < DtMaxCols
  /\ LET newHeaders == Append(columnHeaders, ColumnName(Len(columnHeaders) + 1))
         updatedRows == [i \in DOMAIN dtRows |->
                           [id |-> dtRows[i].id, cells |-> dtRows[i].cells \o NewCells(1)]]
     IN  RunEffects(updatedRows, newHeaders, TRUE, Some(TableDataOf(updatedRows)), newHeaders)
  /\ op' = "addColumn"
  /\ UNCHANGED <<showChoiceDialog, pendingPlacement, dropTimeout, clVars, ppVars, uiVars, vwVars, csvContent>>

\* the x of a row, rendered while there is more than one row
removeRow ==
  /\ DtReady
  /\ Len(dtRows) > 1
  /\ \E r \in DOMAIN dtRows :
       LET updatedRows == SelectSeq(dtRows, LAMBDA row : row.id # dtRows[r].id)
       IN  RunEffects(updatedRows, columnHeaders, FALSE, Some(TableDataOf(updatedRows)), parentHeaders)
  /\ op' = "removeRow"
  /\ UNCHANGED <<showChoiceDialog, pendingPlacement, dropTimeout, clVars, ppVars, uiVars, vwVars, csvContent>>

\* the x of a header, rendered while there is more than one column
removeColumn ==
  /\ DtReady
  /\ Len(columnHeaders) > 1
  /\ \E columnIndex \in {Len(columnHeaders) - 1} :
       LET newHeaders == RemoveAt(columnHeaders, columnIndex + 1)
           updatedRows == [i \in DOMAIN dtRows |->
                             [id |-> dtRows[i].id,
                              cells |-> IF columnIndex < Len(dtRows[i].cells)
                                        THEN RemoveAt(dtRows[i].cells, columnIndex + 1)
                                        ELSE dtRows[i].cells]]
       IN  RunEffects(updatedRows, newHeaders, TRUE, Some(TableDataOf(updatedRows)), newHeaders)
  /\ op' = "removeColumn"
  /\ UNCHANGED <<showChoiceDialog, pendingPlacement, dropTimeout, clVars, ppVars, uiVars, vwVars, csvContent>>

\* typing in the textarea of a cell
updateCellContent ==
  /\ DtReady
  /\ \E r \in {1} \cap DOMAIN dtRows : \E c \in {1} \cap DOMAIN dtRows[r].cells : \E content \in {CellA} :
       /\ content # dtRows[r].cells[c]
       /\ LET updatedRows == [dtRows EXCEPT ![r].cells[c] = content]
          IN  RunEffects(updatedRows, columnHeaders, FALSE, Some(TableDataOf(updatedRows)), parentHeaders)
  /\ op' = "updateCellContent"
  /\ UNCHANGED <<showChoiceDialog, pendingPlacement, dropTimeout, clVars, ppVars, uiVars, vwVars, csvContent>>

\* typing in the input of a header
updateColumnHeader ==
  /\ DtReady
  /\ \E index \in {1} :
       /\ columnHeaders[index] # CellA
       /\ RunEffects(dtRows, [columnHeaders EXCEPT ![index] = CellA], TRUE, parentData, parentHeaders)
  /\ op' = "updateColumnHeader"
  /\ UNCHANGED <<showChoiceDialog, pendingPlacement, dropTimeout, clVars, ppVars, uiVars, vwVars, csvContent>>

\* the Clear button
clearTable ==
  /\ DtReady
  /\ LET defaultRows == <<[id |-> generateId(dtRows), cells |-> NewCells(Len(defaultHeaders))]>>
     IN  RunEffects(defaultRows, defaultHeaders, TRUE, Some(TableDataOf(defaultRows)), defaultHeaders)
  /\ op' = "clearTable"
  /\ UNCHANGED <<showChoiceDialog, pendingPlacement, dropTimeout, clVars, ppVars, uiVars, vwVars, csvContent>>

\* blocks.map(block => block.text.trim()).join(' | ')
RECURSIVE JoinTrimmed(_)
JoinTrimmed(blocks) ==
  IF Len(blocks) = 0 THEN <<>>
  ELSE IF Len(blocks) = 1 THEN Trim(blocks[1])
  ELSE Trim(blocks[1]) \o <<" ", "|", " ">> \o JoinTrimmed(Tail(blocks))

\* placeBlocksAsHeaderRows: the headers its setColumnHeaders updater returns
placeBlocksAsHeaderRows(prevHeaders, columnIndex, blocks) ==
  IF columnIndex < Len(prevHeaders)
  THEN [prevHeaders EXCEPT ![columnIndex + 1] = JoinTrimmed(blocks)]
  ELSE prevHeaders

\* placeBlocksAsHeaderColumns: the headers its updater returns and the rows
\* after the setRows inside it
placeBlocksAsHeaderColumns(prevHeaders, prevRows, startColumnIndex, blocks) ==
  LET columnsNeeded == startColumnIndex + Len(blocks)
      currentColumnCount == Len(prevHeaders)
      newColumns == Max2(0, columnsNeeded - currentColumnCount)
      grown == prevHeaders \o [i \in 1..newColumns |-> ColumnName(currentColumnCount + i)]
  IN  [headers |-> [j \in DOMAIN grown |->
                      IF j - 1 >= startColumnIndex /\ j - 1 < columnsNeeded
                      THEN Trim(blocks[j - startColumnIndex]) ELSE grown[j]],
       rows |-> IF newColumns > 0
                THEN [i \in DOMAIN prevRows |->
                        [id |-> prevRows[i].id, cells |-> prevRows[i].cells \o NewCells(newColumns)]]
                ELSE prevRows]

\* placeBlocksAsRows: the rows its setRows updater returns
placeBlocksAsRows(prevRows, targetRowId, columnIndex, blocks) ==
  LET targetRowIndex == FindIndex(prevRows, targetRowId)
      last == targetRowIndex + Len(blocks) - 1
      pushed == [i \in 1..Max2(Len(prevRows), last) |->
                   IF i <= Len(prevRows) THEN prevRows[i]
                   ELSE [id |-> Id("row", i), cells |-> NewCells(Len(columnHeaders))]]
  IN  IF targetRowIndex = 0 THEN prevRows
      ELSE [i \in DOMAIN pushed |->
              IF i >= targetRowIndex /\ i <= last /\ columnIndex < Len(pushed[i].cells)
              THEN [pushed[i] EXCEPT !.cells[columnIndex + 1] =
                      PlacedContent(@, blocks[i - targetRowIndex + 1])]
              ELSE pushed[i]]

\* placeBlocksAsColumns: the headers it sets and the rows its updater returns
placeBlocksAsColumns(prevRows, targetRowId, columnIndex, blocks) ==
  LET targetRowIndex == FindIndex(prevRows, targetRowId)
      columnsNeeded == columnIndex + Len(blocks)
      currentColumnCount == Len(columnHeaders)
      newColumns == Max2(0, columnsNeeded - currentColumnCount)
      padded == [i \in DOMAIN prevRows |->
                   [id |-> prevRows[i].id, cells |-> prevRows[i].cells \o NewCells(newColumns)]]
  IN  IF targetRowIndex = 0 THEN [headers |-> columnHeaders, rows |-> prevRows]
      ELSE [headers |-> columnHeaders \o
                          [i \in 1..newColumns |-> ColumnName(currentColumnCount + i)],
            rows |-> [padded EXCEPT ![targetRowIndex].cells =
                        [j \in DOMAIN @ |->
                           IF j - 1 >= columnIndex /\ j - 1 < columnsNeeded
                           THEN PlacedContent(@[j], blocks[j - columnIndex]) ELSE @[j]]]]

\* a multi-block drop on a cell of row r or, for r = 0, on a header: the dialog
\* is reset and setTimeout(..., 50) is armed; droppedOn remembers the row the
\* drop landed on, which the component does not keep
handleMultiBlockDrop(Columns, Rows, blocks) ==
  /\ DtReady
  /\ \E columnIndex \in Columns \cap 0..(Len(columnHeaders) - 1) :
     \E r \in Rows \cap (0..Len(dtRows)) :
       /\ r > 0 => columnIndex < Len(dtRows[r].cells)
       /\ dropTimeout' = Some([blocks |-> blocks,
                               targetRowId |-> IF r = 0 THEN Id("header", columnIndex)
                                               ELSE dtRows[r].id,
                               columnIndex |-> columnIndex, droppedOn |-> r])
  /\ showChoiceDialog' = FALSE
  /\ pendingPlacement' = None
  /\ op' = "handleMultiBlockDrop"
  /\ UNCHANGED <<dtRows, columnHeaders, parentData, parentHeaders, clVars, ppVars, uiVars, vwVars, csvContent>>

\* the callback of the timeout: the choice dialog opens
DropTimeout ==
  /\ dropTimeout # None
  /\ pendingPlacement' = dropTimeout
  /\ showChoiceDialog' = TRUE
  /\ dropTimeout' = None
  /\ op' = "setTimeout"
  /\ UNCHANGED <<dtRows, columnHeaders, parentData, parentHeaders, clVars, ppVars, uiVars, vwVars, csvContent>>

\* mutant: Cancel places the blocks as rows before it closes the dialog
handlePlacementCancel_PlacesRows ==
  /\ showChoiceDialog
  /\ LET p == pendingPlacement[1]
         rows2 == IF p.targetRowId.kind = "header" THEN dtRows
                  ELSE placeBlocksAsRows(dtRows, p.targetRowId, p.columnIndex, p.blocks)
     IN  RunEffects(rows2, columnHeaders, FALSE, Some(TableDataOf(rows2)), parentHeaders)
  /\ showChoiceDialog' = FALSE
  /\ pendingPlacement' = None
  /\ op' = "handlePlacementCancel"
  /\ UNCHANGED <<dropTimeout, clVars, ppVars, uiVars, vwVars, csvContent>>

\* the Cancel button of the dialog
handlePlacementCancel ==
  /\ showChoiceDialog
  /\ RunEffects(dtRows, columnHeaders, FALSE, parentData, parentHeaders)
  /\ showChoiceDialog' = FALSE
  /\ pendingPlacement' = None
  /\ op' = "handlePlacementCancel"
  /\ UNCHANGED <<dropTimeout, clVars, ppVars, uiVars, vwVars, csvContent>>

\* the Add as Rows / Add as Columns buttons of the dialog
handlePlacementChoice ==
  /\ showChoiceDialog
  /\ pendingPlacement # None
  /\ \E choice \in {"rows", "columns"} :
       LET p == pendingPlacement[1]
           onHeader == p.targetRowId.kind = "header"
           found == FindIndex(dtRows, p.targetRowId) # 0
           asColumns == placeBlocksAsColumns(dtRows, p.targetRowId, p.columnIndex, p.blocks)
           headerColumns == placeBlocksAsHeaderColumns(columnHeaders, dtRows, p.columnIndex, p.blocks)
           headers2 == IF onHeader
                       THEN IF choice = "rows"
                            THEN placeBlocksAsHeaderRows(columnHeaders, p.columnIndex, p.blocks)
                            ELSE headerColumns.headers
                       ELSE IF choice = "rows" THEN columnHeaders ELSE asColumns.headers
           rows2 == IF onHeader
                    THEN IF choice = "rows" THEN dtRows ELSE headerColumns.rows
                    ELSE IF choice = "rows"
                         THEN placeBlocksAsRows(dtRows, p.targetRowId, p.columnIndex, p.blocks)
                         ELSE asColumns.rows
           headersSet == onHeader \/ (choice = "columns" /\ found /\ Len(headers2) > Len(columnHeaders))
       IN  /\ Len(rows2) <= DtMaxRows
           /\ Len(headers2) <= DtMaxCols
           /\ RunEffects(rows2, headers2, headersSet,
                         IF ~onHeader /\ found THEN Some(TableDataOf(rows2)) ELSE parentData,
                         parentHeaders)
           /\ op' = "handlePlacementChoice:" \o choice
  /\ showChoiceDialog' = FALSE
  /\ pendingPlacement' = None
  /\ UNCHANGED <<dropTimeout, clVars, ppVars, uiVars, vwVars, csvContent>>

NextDataTable ==
  \/ InitializeDefault
  \/ addRow
  \/ addColumn
  \/ removeRow
  \/ removeColumn
  \/ updateCellContent
  \/ updateColumnHeader
  \/ clearTable
  \/ handleMultiBlockDrop({Len(columnHeaders) - 1}, {0, 1}, <<DroppedBlocks[1], <<"a", " ">> >>)
  \/ DropTimeout
  \/ handlePlacementCancel
  \/ handlePlacementChoice

SpecDataTable == InitPage /\ [][NextDataTable]_vars

\* multi-block drops on the cells of any row, with rows removed in between
NextPlacement ==
  \/ InitializeDefault
  \/ removeRow
  \/ handleMultiBlockDrop({0, Len(columnHeaders) - 1}, DOMAIN dtRows, DroppedBlocks)
  \/ DropTimeout
  \/ handlePlacementCancel
  \/ handlePlacementChoice

SpecPlacement == InitPage /\ [][NextPlacement]_vars

(***************************************************************************)
(* DataTable properties                                                    *)
(***************************************************************************)
\* the cells of the table, by position, with their content
CellsOf(rs) == UNION {{<<i, j>> : j \in DOMAIN rs[i].cells} : i \in DOMAIN rs}

\* C17: a drop of several blocks on a cell or a header, and the opening of the
\* choice dialog, change neither rows nor headers; Cancel leaves both as they
\* were; Add as Rows / Add as Columns answers an open dialog with one
\* placement of the blocks of the drop: every block's text is in the table
\* afterwards, at most one cell or header per block has changed, each by
\* taking up a block of the drop; Cancel and the choice close the dialog and
\* reset pendingPlacement.
C17_PlacementOnlyOnChoice ==
  [][LET answered == op' \in {"handlePlacementChoice:rows", "handlePlacementChoice:columns"}
         p == pendingPlacement[1]
         texts == {Trim(p.blocks[b]) : b \in DOMAIN p.blocks}
         changedCells == {c \in CellsOf(dtRows') :
                            IF c \in CellsOf(dtRows)
                            THEN dtRows'[c[1]].cells[c[2]] # dtRows[c[1]].cells[c[2]]
                            ELSE dtRows'[c[1]].cells[c[2]] # CellEmpty}
         changedHeaders == {j \in DOMAIN columnHeaders' :
                              IF j \in DOMAIN columnHeaders
                              THEN columnHeaders'[j] # columnHeaders[j]
                              ELSE columnHeaders'[j] # ColumnName(j)}
     IN  /\ op' \in {"handleMultiBlockDrop", "setTimeout", "handlePlacementCancel"}
              => UNCHANGED <<dtRows, columnHeaders>>
         /\ (op' = "handlePlacementCancel" \/ answered)
              => showChoiceDialog /\ ~showChoiceDialog' /\ pendingPlacement' = None
         /\ answered =>
              /\ pendingPlacement # None
              /\ \A t \in texts :
                   \/ \E c \in CellsOf(dtRows') : Includes(dtRows'[c[1]].cells[c[2]], t)
                   \/ \E j \in DOMAIN columnHeaders' : Includes(columnHeaders'[j], t)
              /\ Cardinality(changedCells) + Cardinality(changedHeaders) <= Len(p.blocks)
              /\ \A c \in changedCells : \E t \in texts : Includes(dtRows'[c[1]].cells[c[2]], t)
              /\ \A j \in changedHeaders : \E t \in texts : Includes(columnHeaders'[j], t)
              /\ p.droppedOn = 0 => changedCells = {}
              /\ p.droppedOn # 0 => changedHeaders = {}]_vars

\* two blocks dropped on the last cell of the only row were placed as rows: a
\* row was appended and holds the second block
C17_Witness ==
  /\ op = "handlePlacementChoice:rows"
  /\ ~showChoiceDialog
  /\ pendingPlacement = None
  /\ Len(dtRows) = 2
  /\ dtRows[1].cells[Len(columnHeaders)] = CellA
  /\ dtRows[2].cells[Len(columnHeaders)] = CellA
  /\ dtRows[2].id = Id("row", 2)

\* C18: once the effects of an operation have run, every row has exactly
\* columnHeaders.length cells.
C18_RowsMatchColumnHeaders ==
  \A i \in DOMAIN dtRows : Len(dtRows[i].cells) = Len(columnHeaders)

\* two blocks dropped on the last of three headers were placed as columns
\* over a table of two rows: a fourth column was added
C18_Witness ==
  /\ op = "handlePlacementChoice:columns"
  /\ Len(dtRows) = 2
  /\ Len(columnHeaders) = 3
  /\ columnHeaders[2] = CellA
  /\ columnHeaders[3] = CellA

\* C19: the data last passed to onDataChange is the content of the current
\* rows, and each of its rows has as many cells as the headers last passed to
\* onHeadersChange.
C19_ParentSeesTable ==
  parentData # None =>
    /\ parentData[1] = TableDataOf(dtRows)
    /\ \A i \in DOMAIN parentData[1] : Len(parentData[1][i]) = Len(parentHeaders)

\* C20: k blocks dropped on the cell of row r, column c (columnIndex c - 1):
\* Add as Rows puts the trimmed text of block i into cell (r + i - 1, c) and
\* leaves max(rows, r + k - 1) rows; Add as Columns puts it into cell
\* (r, c + i - 1) and leaves max(columns, c + k - 1) columns; no other cell
\* changes, and an appended cell that is no target is empty.
C20_BlocksPlacedFromTarget ==
  [][LET p == pendingPlacement[1]
         r == p.droppedOn
         c == p.columnIndex + 1
         k == Len(p.blocks)
         asRows == op' = "handlePlacementChoice:rows"
         target(i) == IF asRows THEN <<r + i - 1, c>> ELSE <<r, c + i - 1>>
         targets == {target(i) : i \in 1..k}
         before(cell) == IF cell \in CellsOf(dtRows) THEN dtRows[cell[1]].cells[cell[2]]
                         ELSE CellEmpty
     IN  (op' \in {"handlePlacementChoice:rows", "handlePlacementChoice:columns"} /\ r > 0) =>
           /\ Len(dtRows') = (IF asRows THEN Max2(Len(dtRows), r + k - 1) ELSE Len(dtRows))
           /\ Len(columnHeaders') = (IF asRows THEN Len(columnHeaders)
                                     ELSE Max2(Len(columnHeaders), c + k - 1))
           /\ \A i \in 1..k :
                /\ target(i) \in CellsOf(dtRows')
                /\ LET now == dtRows'[target(i)[1]].cells[target(i)[2]]
                   IN  IF Trim(before(target(i))) = <<>> THEN now = Trim(p.blocks[i])
                       ELSE Includes(now, Trim(p.blocks[i]))
           /\ \A cell \in CellsOf(dtRows') \ targets :
                dtRows'[cell[1]].cells[cell[2]] = before(cell)]_vars

\* C21: the ids of the rows of the table are pairwise distinct, so that an id
\* names exactly one row for removeRow and for a drop.
C21_RowIdsDistinct ==
  \A i, j \in DOMAIN dtRows : dtRows[i].id = dtRows[j].id => i = j

(***************************************************************************)
(* InteractivePDFViewer: multi-selection of text blocks                    *)
(* The viewer is modelled from the moment its document has loaded          *)
(* (setPdfDoc, setCurrentPage(1)); the selection rectangle is represented  *)
(* by the run of blocks it intersects.                                     *)
(***************************************************************************)
VwNumPages == 3            \* pdfDoc.numPages
VwMaxBlocks == 2           \* most grouped blocks on a page

\* getPageTextBlocks(): the grouped blocks of the page shown are indexed
\* 0 .. n - 1; the last page has one block less than the others
PageIndexes(page) == 0..((IF page = VwNumPages THEN VwMaxBlocks - 1 ELSE VwMaxBlocks) - 1)

\* isBlockSelected for the block at pageIndex of the page shown
isBlockSelected(pageIndex) ==
  pageIndex \in PageIndexes(vwCurrentPage) /\ pageIndex \in selectedBlocks

\* the Selection ON / OFF button
ToggleSelectionMode ==
  /\ ~vwIsSelecting
  /\ selectionMode' = ~selectionMode
  /\ op' = "setSelectionMode"
  /\ UNCHANGED <<vwCurrentPage, selectedBlocks, vwIsSelecting, userSelected,
                 clVars, ppVars, uiVars, dtVars, csvContent>>

\* handleMouseDown beside the blocks, with or without Ctrl / Cmd held
handleMouseDown ==
  /\ selectionMode
  /\ ~vwIsSelecting
  /\ vwIsSelecting' = TRUE
  /\ \E ctrlKey \in BOOLEAN :
       IF ctrlKey THEN UNCHANGED <<selectedBlocks, userSelected>>
       ELSE selectedBlocks' = {} /\ userSelected' = {}
  /\ op' = "handleMouseDown"
  /\ UNCHANGED <<vwCurrentPage, selectionMode, clVars, ppVars, uiVars, dtVars, csvContent>>

\* onMouseLeave of the page container
MouseLeave ==
  /\ vwIsSelecting
  /\ vwIsSelecting' = FALSE
  /\ op' = "onMouseLeave"
  /\ UNCHANGED <<vwCurrentPage, selectedBlocks, selectionMode, userSelected,
                 clVars, ppVars, uiVars, dtVars, csvContent>>

\* handleMouseUp: the blocks of the page shown that intersect the rectangle
\* are added to the selection by their page index
handleMouseUp ==
  /\ vwIsSelecting
  /\ \E lo, hi \in PageIndexes(vwCurrentPage) :
       LET intersects == lo..hi
       IN  /\ selectedBlocks' = selectedBlocks \cup intersects
           /\ userSelected' = userSelected \cup {<<vwCurrentPage, i>> : i \in intersects}
  /\ vwIsSelecting' = FALSE
  /\ op' = "handleMouseUp"
  /\ UNCHANGED <<vwCurrentPage, selectionMode, clVars, ppVars, uiVars, dtVars, csvContent>>

\* the Select All button
selectAllOnPage ==
  /\ selectionMode
  /\ ~vwIsSelecting
  /\ PageIndexes(vwCurrentPage) # {}
  /\ selectedBlocks' = PageIndexes(vwCurrentPage)
  /\ userSelected' = {<<vwCurrentPage, i>> : i \in PageIndexes(vwCurrentPage)}
  /\ op' = "selectAllOnPage"
  /\ UNCHANGED <<vwCurrentPage, selectionMode, vwIsSelecting, clVars, ppVars, uiVars, dtVars, csvContent>>

\* the Clear button
clearSelection ==
  /\ selectionMode
  /\ ~vwIsSelecting
  /\ selectedBlocks # {}
  /\ selectedBlocks' = {}
  /\ userSelected' = {}
  /\ op' = "clearSelection"
  /\ UNCHANGED <<vwCurrentPage, selectionMode, vwIsSelecting, clVars, ppVars, uiVars, dtVars, csvContent>>

\* the viewer's Prev button: setCurrentPage(Math.max(1, currentPage - 1))
ViewerPrev ==
  /\ ~vwIsSelecting
  /\ ~(vwCurrentPage <= 1)
  /\ vwCurrentPage' = Max2(1, vwCurrentPage - 1)
  /\ op' = "viewer:Prev"
  /\ UNCHANGED <<selectedBlocks, selectionMode, vwIsSelecting, userSelected,
                 clVars, ppVars, uiVars, dtVars, csvContent>>

\* the viewer's Next button: setCurrentPage(Math.min(pdfDoc.numPages, currentPage + 1))
ViewerNext ==
  /\ ~vwIsSelecting
  /\ ~(vwCurrentPage >= VwNumPages)
  /\ vwCurrentPage' = Min2(VwNumPages, vwCurrentPage + 1)
  /\ op' = "viewer:Next"
  /\ UNCHANGED <<selectedBlocks, selectionMode, vwIsSelecting, userSelected,
                 clVars, ppVars, uiVars, dtVars, csvContent>>

NextViewer ==
  \/ ToggleSelectionMode
  \/ handleMouseDown
  \/ MouseLeave
  \/ handleMouseUp
  \/ selectAllOnPage
  \/ clearSelection
  \/ ViewerPrev
  \/ ViewerNext

SpecViewer == InitPage /\ [][NextViewer]_vars

(***************************************************************************)
(* Bank-statement parser page: CSV export                                  *)
(***************************************************************************)
Quote == "\""

\* Array.prototype.join(sep) on an array of strings
RECURSIVE JoinWith(_, _)
JoinWith(cells, sep) ==
  IF cells = <<>> THEN <<>>
  ELSE IF Len(cells) = 1 THEN cells[1]
  ELSE cells[1] \o <<sep>> \o JoinWith(Tail(cells), sep)

\* the csvContent handleExportCSV builds from the working table
CsvContentOf(headers, rows) ==
  (IF Len(headers) > 0 THEN JoinWith(headers, ",") \o <<NL>> ELSE <<>>)
    \o Flatten([i \in DOMAIN rows |-> JoinWith(rows[i], ",") \o <<NL>>])

\* handleExportCSV, from the Export CSV button of the table panel
handleExportCSV ==
  /\ TableShown
  /\ IF Len(tableHeaders) = 0 /\ Len(tableRows) = 0
     THEN error' = "No data to export" /\ UNCHANGED csvContent
     ELSE csvContent' = Some(CsvContentOf(tableHeaders, tableRows)) /\ UNCHANGED error
  /\ op' = "handleExportCSV"
  /\ UNCHANGED <<docVars, selVars, extractedText, extractedTableData, showPreview, isLoading,
                 inflight, tabVars, smVars, colVars, clVars, ppVars, dtVars, vwVars>>

\* region texts whose lines hold a comma, a double quote, or neither
ExportTexts == { <<"a", NL, "b">>, <<"a", ",", "b", NL, "a">>, <<"b", NL, Quote, "a">> }

NextExport ==
  \/ FileUpload
  \/ PageLoadSuccess
  \/ OverlayMouseDown({<<0, 0>>})
  \/ OverlayMouseMove({<<30, 30>>})
  \/ OverlayMouseUp
  \/ RegionResponse({}, ExportTexts)
  \/ AddToTable
  \/ handleExportCSV

SpecExport == InitPage /\ [][NextExport]_vars

\* a CSV reader (RFC 4180): records end at a line break outside quotes,
\* fields are separated by commas outside quotes, a field that opens with a
\* double quote runs to the closing one, "" inside it standing for a quote
RECURSIVE ParseCsvFrom(_, _, _, _, _)
ParseCsvFrom(str, inQuotes, field, record, records) ==
  IF str = <<>>
  THEN IF field = <<>> /\ record = <<>> THEN records
       ELSE Append(records, Append(record, field))
  ELSE LET ch == Head(str)
           rest == Tail(str)
       IN  IF inQuotes
           THEN IF ch = Quote
                THEN IF rest # <<>> /\ Head(rest) = Quote
                     THEN ParseCsvFrom(Tail(rest), TRUE, Append(field, Quote), record, records)
                     ELSE ParseCsvFrom(rest, FALSE, field, record, records)
                ELSE ParseCsvFrom(rest, TRUE, Append(field, ch), record, records)
           ELSE IF ch = Quote /\ field = <<>>
                THEN ParseCsvFrom(rest, TRUE, field, record, records)
           ELSE IF ch = ","
                THEN ParseCsvFrom(rest, FALSE, <<>>, Append(record, field), records)
           ELSE IF ch = NL
                THEN ParseCsvFrom(rest, FALSE, <<>>, <<>>, Append(records, Append(record, field)))
           ELSE ParseCsvFrom(rest, FALSE, Append(field, ch), record, records)

ParseCsv(str) == ParseCsvFrom(str, FALSE, <<>>, <<>>, <<>>)

(***************************************************************************)
(* Paging and column boundary properties                                   *)
(***************************************************************************)
\* C22: in column mode, when no get-text-spans request is outstanding the
\* text spans shown are those of the page shown; in particular a Prev click
\* made when that was so and nothing is outstanding leaves it so.
C22_SpansOfPageShown ==
  [][(/\ op' = "Prev"
      /\ isColumnMode
      /\ spansInflight = {}
      /\ textSpans = PageSpans(currentPage))
     => (spansInflight' # {} \/ textSpans' = PageSpans(currentPage'))]_vars

\* C24: whenever a PDF is loaded (numPages >= 1), 1 <= currentPage <= numPages.
C24_CurrentPageExists ==
  numPages >= 1 => (1 <= currentPage /\ currentPage <= numPages)

\* C25: every user-defined column keeps 0 <= x0 < x1.
C25_ColumnBandsProper ==
  \A k \in DOMAIN columns : 0 <= columns[k].x0 /\ columns[k].x0 < columns[k].x1

(***************************************************************************)
(* Viewer selection properties                                             *)
(***************************************************************************)
\* C23: a block of the page shown is shown as selected (and goes into a
\* multi-block drag) only if the user selected that block on that page.
C23_SelectedOnlyIfUserSelected ==
  \A i \in PageIndexes(vwCurrentPage) :
    isBlockSelected(i) => <<vwCurrentPage, i>> \in userSelected

(***************************************************************************)
(* CSV export properties                                                   *)
(***************************************************************************)
\* C26: the file written by Export CSV, read back as CSV, gives one record
\* for the headers followed by one record per row, each with the cells of
\* that row: the original headers and rows.
C26_CsvRoundTrips ==
  [][(op' = "handleExportCSV" /\ csvContent' # csvContent)
     => ParseCsv(csvContent'[1]) = <<tableHeaders>> \o tableRows]_vars

====
